---- MODULE Spec2Model ----
(***************************************************************************)
(* State-machine model of the watch-event service of moolen/ripkit:        *)
(* the informer callbacks (watchers.Manager), the event transformer        *)
(* (models), the BadgerDB-backed store with its three indexes (storage)    *)
(* and the query API (api.Server).                                         *)
(*                                                                         *)
(* Strings are tuples of one-character strings, so that Sprintf, Split,    *)
(* HasSuffix, ToLower and the byte-wise key order of the store are         *)
(* computed as the Go code computes them.                                  *)
(***************************************************************************)
EXTENDS Integers, Sequences, FiniteSets, TLC

\* ------------------------------------------------------------------ bounds

\* Clock resolution kept by time.Time below one second (nanoseconds in Go).
TicksPerSec == 2
\* Number of times the wall clock is advanced in one behaviour.
MaxTicks == 2
\* Number of informer notifications delivered in one behaviour: with the
\* callbacks of different kinds interleaved, and one after the other.
MaxEvents == 2
MaxCalls == 3
\* Server.maxLimit (Config.MaxQueryLimit) as configured for the run.
MaxQueryLimit == 2
\* Store.retentionDays as configured for the run.
RetentionDays == 1
\* Width of the date-time digits of a formatted timestamp.
TsWidth == 6

\* ----------------------------------------------------------------- strings

\* The characters of the model's strings, in ASCII (byte) order.
Upper ==
  << "A", "B", "C", "D", "E", "F", "G", "H", "I", "J", "K", "L", "M",
     "N", "O", "P", "Q", "R", "S", "T", "U", "V", "W", "X", "Y", "Z" >>

Lower ==
  << "a", "b", "c", "d", "e", "f", "g", "h", "i", "j", "k", "l", "m",
     "n", "o", "p", "q", "r", "s", "t", "u", "v", "w", "x", "y", "z" >>

AsciiOrder ==
  << "+", "-", "/", "0", "1", "2", "3", "4", "5", "6", "7", "8", "9", ":" >>
  \o Upper \o Lower

Chars == { AsciiOrder[i] : i \in 1..Len(AsciiOrder) }

\* Byte order of a character.
Ord == [ c \in Chars |-> CHOOSE i \in 1..Len(AsciiOrder) : AsciiOrder[i] = c ]

\* unicode.ToUpper / unicode.ToLower on ASCII
UpperOf == [ c \in Chars |->
  IF \E i \in 1..26 : Lower[i] = c THEN Upper[CHOOSE i \in 1..26 : Lower[i] = c] ELSE c ]

LowerOf == [ c \in Chars |->
  IF \E i \in 1..26 : Upper[i] = c THEN Lower[CHOOSE i \in 1..26 : Upper[i] = c] ELSE c ]

\* strings.ToLower
ToLower(s) == [ i \in 1..Len(s) |-> LowerOf[s[i]] ]

\* strings.HasPrefix / strings.HasSuffix / strings.TrimSuffix
HasPrefix(s, p) == Len(s) >= Len(p) /\ SubSeq(s, 1, Len(p)) = p
HasSuffix(s, x) == Len(s) >= Len(x) /\ SubSeq(s, Len(s) - Len(x) + 1, Len(s)) = x
TrimSuffix(s, x) == IF HasSuffix(s, x) THEN SubSeq(s, 1, Len(s) - Len(x)) ELSE s

RECURSIVE LessFrom(_, _, _)
\* Whether a sorts before b, given that they agree before position i.
LessFrom(a, b, i) ==
  IF i > Len(a) THEN i <= Len(b)
  ELSE IF i > Len(b) THEN FALSE
  ELSE IF a[i] = b[i] THEN LessFrom(a, b, i + 1)
  ELSE Ord[a[i]] < Ord[b[i]]

\* bytes.Compare(a, b) < 0: the order in which the store iterates its keys.
BytesLess(a, b) == LessFrom(a, b, 1)

RECURSIVE JoinSlash(_)
\* fmt.Sprintf("%s/%s/.../%s", parts...)
JoinSlash(parts) ==
  IF Len(parts) = 0 THEN << >>
  ELSE IF Len(parts) = 1 THEN parts[1]
  ELSE parts[1] \o << "/" >> \o JoinSlash(Tail(parts))

RECURSIVE SplitSlash(_)
\* strings.Split(s, "/")
SplitSlash(s) ==
  LET cut == { i \in 1..Len(s) : s[i] = "/" }
  IN  IF cut = {} THEN << s >>
      ELSE LET i == CHOOSE j \in cut : \A k \in cut : j <= k
           IN  << SubSeq(s, 1, i - 1) >> \o SplitSlash(SubSeq(s, i + 1, Len(s)))

\* -------------------------------------------------------------------- time

\* A time.Time: t is the instant in clock ticks since the epoch, zone the
\* offset of its location in seconds east of UTC.
ZeroTime == [ t |-> -1, zone |-> 0 ]
IsZero(tm) == tm.t < 0

\* Offsets of the locations that occur: UTC and one minute east of it.
Zones == { 0, 60 }

\* Time.After / Time.Before compare instants, whatever the locations.
After(a, b) == a.t > b.t
Before(a, b) == a.t < b.t

DigitChar == << "0", "1", "2", "3", "4", "5", "6", "7", "8", "9" >>

RECURSIVE Digits(_, _)
\* n as w decimal digits, most significant first.
Digits(n, w) ==
  IF w = 0 THEN << >> ELSE Digits(n \div 10, w - 1) \o << DigitChar[(n % 10) + 1] >>

\* The "Z07:00" part of the layout: "Z" for UTC, else sign, hours, minutes.
ZoneSuffix(zone) ==
  IF zone = 0 THEN << "Z" >>
  ELSE LET a == IF zone < 0 THEN 0 - zone ELSE zone
       IN  << (IF zone < 0 THEN "-" ELSE "+") >>
           \o Digits(a \div 3600, 2) \o << ":" >> \o Digits((a % 3600) \div 60, 2)

\* Time.Format(time.RFC3339): the wall clock of the time's own location, cut
\* to whole seconds, followed by the zone. The date-time digits
\* "2006-01-02T15:04:05" are fixed-width and ordered as the wall-clock second
\* count is, and are written here as that count in TsWidth digits.
FormatRFC3339(tm) ==
  Digits((tm.t \div TicksPerSec) + tm.zone, TsWidth) \o ZoneSuffix(tm.zone)

IsDigit(c) == \E i \in 1..10 : DigitChar[i] = c
DigitVal(c) == (CHOOSE i \in 1..10 : DigitChar[i] = c) - 1

RECURSIVE Number(_)
Number(ds) ==
  IF Len(ds) = 0 THEN 0 ELSE 10 * Number(SubSeq(ds, 1, Len(ds) - 1)) + DigitVal(ds[Len(ds)])

\* time.Parse(time.RFC3339, s) of a key segment: [ok, tm].
ParseRFC3339(s) ==
  LET bad == [ ok |-> FALSE, tm |-> ZeroTime ]
  IN  IF Len(s) <= TsWidth \/ \E i \in 1..TsWidth : ~IsDigit(s[i]) THEN bad
      ELSE LET wall == Number(SubSeq(s, 1, TsWidth))
               z == SubSeq(s, TsWidth + 1, Len(s))
           IN  IF z = << "Z" >>
               THEN [ ok |-> TRUE, tm |-> [ t |-> wall * TicksPerSec, zone |-> 0 ] ]
               ELSE IF Len(z) = 6 /\ z[1] \in { "+", "-" } /\ z[4] = ":"
                       /\ \A i \in { 2, 3, 5, 6 } : IsDigit(z[i])
               THEN LET a == 3600 * Number(SubSeq(z, 2, 3)) + 60 * Number(SubSeq(z, 5, 6))
                        off == IF z[1] = "-" THEN 0 - a ELSE a
                    IN  [ ok |-> TRUE,
                          tm |-> [ t |-> (wall - off) * TicksPerSec, zone |-> off ] ]
               ELSE bad

\* Time.Unix(): whole seconds since the epoch.
Unix(t) == t \div TicksPerSec

\* Amounts by which the wall clock moves between two steps: the clock's
\* resolution and a day.
ClockSteps == { 1, 24 * 3600 * TicksPerSec }

\* ------------------------------------------------------------- transformer

SystemWatcherUser == "system:k8s-watcher"
StageResponseComplete == "ResponseComplete"

EventTypes == { "ADDED", "MODIFIED", "DELETED" }

\* Variant of mapEventTypeToVerb whose default is the verb update.
mapEventTypeToVerbDefaultUpdate(eventType) ==
  CASE eventType = "ADDED" -> "create"
    [] eventType = "DELETED" -> "delete"
    [] OTHER -> "update"

\* models.mapEventTypeToVerb
mapEventTypeToVerb(eventType) ==
  CASE eventType = "ADDED" -> "create"
    [] eventType = "MODIFIED" -> "update"
    [] eventType = "DELETED" -> "delete"
    [] OTHER -> "unknown"

\* <<lower-case kind, plural>>
irregularPlurals ==
  { << << "e", "n", "d", "p", "o", "i", "n", "t", "s" >>,
       << "e", "n", "d", "p", "o", "i", "n", "t", "s" >> >>,
    << << "i", "n", "g", "r", "e", "s", "s" >>,
       << "i", "n", "g", "r", "e", "s", "s", "e", "s" >> >>,
    << << "n", "e", "t", "w", "o", "r", "k", "p", "o", "l", "i", "c", "y" >>,
       << "n", "e", "t", "w", "o", "r", "k", "p", "o", "l", "i", "c", "i", "e", "s" >> >>,
    << << "p", "o", "d", "d", "i", "s", "r", "u", "p", "t", "i", "o", "n", "b", "u", "d", "g", "e", "t" >>,
       << "p", "o", "d", "d", "i", "s", "r", "u", "p", "t", "i", "o", "n", "b", "u", "d", "g", "e", "t", "s" >> >>,
    << << "p", "r", "i", "o", "r", "i", "t", "y", "c", "l", "a", "s", "s" >>,
       << "p", "r", "i", "o", "r", "i", "t", "y", "c", "l", "a", "s", "s", "e", "s" >> >>,
    << << "s", "t", "o", "r", "a", "g", "e", "c", "l", "a", "s", "s" >>,
       << "s", "t", "o", "r", "a", "g", "e", "c", "l", "a", "s", "s", "e", "s" >> >> }

\* models.kindToResourceType
kindToResourceType(kind) ==
  LET lower == ToLower(kind)
  IN  IF \E p \in irregularPlurals : p[1] = lower
      THEN (CHOOSE p \in irregularPlurals : p[1] = lower)[2]
      ELSE IF HasSuffix(lower, << "s" >>) THEN lower \o << "e", "s" >>
      ELSE IF HasSuffix(lower, << "y" >>)
           THEN TrimSuffix(lower, << "y" >>) \o << "i", "e", "s" >>
      ELSE lower \o << "s" >>

\* <<plural, Kind>>
irregularSingulars ==
  { << << "e", "n", "d", "p", "o", "i", "n", "t", "s" >>,
       << "E", "n", "d", "p", "o", "i", "n", "t", "s" >> >>,
    << << "i", "n", "g", "r", "e", "s", "s", "e", "s" >>,
       << "I", "n", "g", "r", "e", "s", "s" >> >>,
    << << "n", "e", "t", "w", "o", "r", "k", "p", "o", "l", "i", "c", "i", "e", "s" >>,
       << "N", "e", "t", "w", "o", "r", "k", "P", "o", "l", "i", "c", "y" >> >>,
    << << "p", "o", "d", "d", "i", "s", "r", "u", "p", "t", "i", "o", "n", "b", "u", "d", "g", "e", "t", "s" >>,
       << "P", "o", "d", "D", "i", "s", "r", "u", "p", "t", "i", "o", "n", "B", "u", "d", "g", "e", "t" >> >>,
    << << "p", "r", "i", "o", "r", "i", "t", "y", "c", "l", "a", "s", "s", "e", "s" >>,
       << "P", "r", "i", "o", "r", "i", "t", "y", "C", "l", "a", "s", "s" >> >>,
    << << "s", "t", "o", "r", "a", "g", "e", "c", "l", "a", "s", "s", "e", "s" >>,
       << "S", "t", "o", "r", "a", "g", "e", "C", "l", "a", "s", "s" >> >>,
    << << "c", "u", "s", "t", "o", "m", "r", "e", "s", "o", "u", "r", "c", "e", "d", "e", "f", "i", "n", "i", "t", "i", "o", "n", "s" >>,
       << "C", "u", "s", "t", "o", "m", "R", "e", "s", "o", "u", "r", "c", "e", "D", "e", "f", "i", "n", "i", "t", "i", "o", "n" >> >> }

\* api.resourceTypeToKind
resourceTypeToKind(resourceType) ==
  IF \E p \in irregularSingulars : p[1] = resourceType
  THEN (CHOOSE p \in irregularSingulars : p[1] = resourceType)[2]
  ELSE LET singular ==
             IF HasSuffix(resourceType, << "i", "e", "s" >>)
             THEN TrimSuffix(resourceType, << "i", "e", "s" >>) \o << "y" >>
             ELSE IF HasSuffix(resourceType, << "s", "e", "s" >>)
             THEN TrimSuffix(resourceType, << "s", "e", "s" >>)
             ELSE IF HasSuffix(resourceType, << "e", "s" >>)
             THEN TrimSuffix(resourceType, << "e", "s" >>)
             ELSE IF HasSuffix(resourceType, << "s" >>)
             THEN TrimSuffix(resourceType, << "s" >>)
             ELSE resourceType
       IN  IF Len(singular) > 0
           THEN << UpperOf[singular[1]] >> \o SubSeq(singular, 2, Len(singular))
           ELSE singular

\* The involvedObject sub-document of an object; found = FALSE when the
\* object has none.
NoInvolved == [ found |-> FALSE, kind |-> << >>, namespace |-> << >>, name |-> << >> ]
Involved(kind, namespace, name) ==
  [ found |-> TRUE, kind |-> kind, namespace |-> namespace, name |-> name ]

\* models.ExtractInvolvedObject: [ok, kind, namespace, name]; ok = FALSE is nil.
NoReference == [ ok |-> FALSE, kind |-> << >>, namespace |-> << >>, name |-> << >> ]
\* Variant of ExtractInvolvedObject that checks the kind only and not the name.
ExtractInvolvedObjectKindOnly(obj) ==
  IF obj.kind # << "E", "v", "e", "n", "t" >> THEN NoReference
  ELSE IF ~obj.involved.found THEN NoReference
  ELSE IF obj.involved.kind = << >> THEN NoReference
  ELSE [ ok |-> TRUE, kind |-> obj.involved.kind,
         namespace |-> obj.involved.namespace, name |-> obj.involved.name ]

ExtractInvolvedObject(obj) ==
  IF obj.kind # << "E", "v", "e", "n", "t" >> THEN NoReference
  ELSE IF ~obj.involved.found THEN NoReference
  ELSE IF obj.involved.kind = << >> \/ obj.involved.name = << >> THEN NoReference
  ELSE [ ok |-> TRUE, kind |-> obj.involved.kind,
         namespace |-> obj.involved.namespace, name |-> obj.involved.name ]

\* The content of an object is a map[string]any. Memory is a function from
\* addresses to maps; a value of a map is a scalar or the address of a
\* nested map. An address is the path from a root, as a tuple of strings.
Scalar(v) == [ map |-> FALSE, v |-> v ]
Ref(addr) == [ map |-> TRUE, v |-> addr ]

RECURSIVE Reachable(_, _)
\* The addresses of the maps of the object at addr.
Reachable(mem, addr) ==
  { addr } \cup UNION { Reachable(mem, mem[addr][k].v) :
                          k \in { x \in DOMAIN mem[addr] : mem[addr][x].map } }

\* Variant of DeepCopy that copies the top-level map only.
ShallowCopy(mem, root, copy) == (copy :> mem[root]) @@ mem

\* obj.DeepCopy(): every map of the object at root is copied; the copy of
\* root is at copy, and the copies refer to each other.
DeepCopy(mem, root, copy) ==
  LET Moved(a) == copy \o SubSeq(a, Len(root) + 1, Len(a))
      maps == Reachable(mem, root)
      copies == [ b \in { Moved(a) : a \in maps } |->
                    LET a == CHOOSE x \in maps : Moved(x) = b
                    IN  [ k \in DOMAIN mem[a] |->
                            IF mem[a][k].map THEN Ref(Moved(mem[a][k].v))
                            ELSE mem[a][k] ] ]
  IN  copies @@ mem

\* delete(m, key) for each key of keys, m being the map at addr.
Delete(mem, addr, keys) ==
  [ mem EXCEPT ![addr] = [ k \in (DOMAIN mem[addr]) \ keys |-> mem[addr][k] ] ]

\* The metadata fields cleanObject deletes.
StrippedFields ==
  { "managedFields", "resourceVersion", "generation", "selfLink", "uid" }

\* models.cleanObject: the memory after the call; the returned map is at
\* cleaned.
cleanObject(mem, obj, cleaned) ==
  LET copied == DeepCopy(mem, obj, cleaned)
      top == copied[cleaned]
  IN  IF "metadata" \in DOMAIN top /\ top["metadata"].map
      THEN Delete(copied, top["metadata"].v, StrippedFields)
      ELSE copied

\* Variant of TransformWatchEvent that reports a creation with status 201.
TransformWatchEventCreated(obj, eventType, t, loc) ==
  [ timestamp |-> [ t |-> t, zone |-> loc ],
    verb |-> mapEventTypeToVerb(eventType),
    user |-> SystemWatcherUser,
    namespace |-> obj.namespace,
    resourceType |-> kindToResourceType(obj.kind),
    resourceName |-> obj.name,
    responseStatus |-> IF eventType = "ADDED" THEN 201 ELSE 200,
    stage |-> StageResponseComplete,
    sourceIPs |-> << >> ]

\* models.TransformWatchEvent for a non-nil object, at clock reading t in
\* the process's location loc. ObjectChanges is the map cleanObject
\* returns; Message, Annotations and RequestURI, which no key and no filter
\* of the store reads, are left out of the record.
TransformWatchEvent(obj, eventType, t, loc) ==
  [ timestamp |-> [ t |-> t, zone |-> loc ],
    verb |-> mapEventTypeToVerb(eventType),
    user |-> SystemWatcherUser,
    namespace |-> obj.namespace,
    resourceType |-> kindToResourceType(obj.kind),
    resourceName |-> obj.name,
    responseStatus |-> 200,
    stage |-> StageResponseComplete,
    sourceIPs |-> << >> ]

\* json.Marshal(event): the fields in declaration order; sourceIPs is
\* omitempty. The timestamp keeps its sub-second part (RFC3339Nano).
Marshal(event) ==
  << << "timestamp", event.timestamp >>, << "verb", event.verb >>,
     << "user", event.user >>, << "namespace", event.namespace >>,
     << "resourceType", event.resourceType >>,
     << "resourceName", event.resourceName >>,
     << "responseStatus", event.responseStatus >>,
     << "stage", event.stage >> >>
  \o (IF event.sourceIPs = << >> THEN << >>
      ELSE << << "sourceIPs", event.sourceIPs >> >>)

Field(data, name, default) ==
  IF \E i \in 1..Len(data) : data[i][1] = name
  THEN data[CHOOSE i \in 1..Len(data) : data[i][1] = name][2]
  ELSE default

\* json.Unmarshal(val, &event)
Unmarshal(data) ==
  [ timestamp |-> Field(data, "timestamp", ZeroTime),
    verb |-> Field(data, "verb", ""),
    user |-> Field(data, "user", ""),
    namespace |-> Field(data, "namespace", << >>),
    resourceType |-> Field(data, "resourceType", << >>),
    resourceName |-> Field(data, "resourceName", << >>),
    responseStatus |-> Field(data, "responseStatus", 0),
    stage |-> Field(data, "stage", ""),
    sourceIPs |-> Field(data, "sourceIPs", << >>) ]

\* ------------------------------------------------------------------- store

\* An entry of the store: badger.Entry{Key, Value, ExpiresAt}.
Entry(key, value, expiresAt) == [ key |-> key, value |-> value, expiresAt |-> expiresAt ]

\* Variant of timeKey with the resourceName before the resourceType.
timeKeyNameFirst(event, uid) ==
  JoinSlash(<< << "e", "v", "e", "n", "t", "s" >>, FormatRFC3339(event.timestamp), event.namespace,
               event.resourceName, event.resourceType, uid >>)

\* The time-index key of StoreEvent.
timeKey(event, uid) ==
  JoinSlash(<< << "e", "v", "e", "n", "t", "s" >>, FormatRFC3339(event.timestamp), event.namespace,
               event.resourceType, event.resourceName, uid >>)

\* Variant of objectKey that leaves the uid out of the key.
objectKeyWithoutUid(event, uid) ==
  JoinSlash(<< << "o", "b", "j", "e", "c", "t", "s" >>, event.namespace, event.resourceType, event.resourceName,
               FormatRFC3339(event.timestamp) >>)

\* The object-index key of StoreEvent.
objectKey(event, uid) ==
  JoinSlash(<< << "o", "b", "j", "e", "c", "t", "s" >>, event.namespace, event.resourceType, event.resourceName,
               FormatRFC3339(event.timestamp), uid >>)

\* The cross-reference key of StoreEvent.
refKey(event, involvedObj, uid) ==
  JoinSlash(<< << "e", "v", "e", "n", "t", "R", "e", "f", "s" >>, involvedObj.namespace, involvedObj.kind, involvedObj.name,
               FormatRFC3339(event.timestamp), uid >>)

\* Variant of ExpiresAt with twice the retention.
ExpiresAtTwice(t) == Unix(t + 2 * RetentionDays * 24 * 3600 * TicksPerSec)

\* ttl and expiresAt of StoreEvent, at clock reading t.
ExpiresAt(t) == Unix(t + RetentionDays * 24 * 3600 * TicksPerSec)

\* The guard of the reference-index block of StoreEvent.
WritesReference(event, obj) ==
  event.resourceType = << "e", "v", "e", "n", "t", "s" >> /\ ExtractInvolvedObject(obj).ok

\* txn.SetEntry: the write is buffered in the transaction.
SetEntry(pending, e) == { x \in pending : x.key # e.key } \cup { e }

\* Variant of Commit in which only the time-index writes reach the store.
CommitTimeIndexOnly(store, pending) ==
  LET written == { e \in pending : HasPrefix(e.key, << "e", "v", "e", "n", "t", "s", "/" >>) }
  IN  { x \in store : \A e \in written : e.key # x.key } \cup written

\* txn.Commit of db.Update: all buffered writes replace the entries of their
\* keys at once (NumVersionsToKeep = 1).
Commit(store, pending) ==
  { x \in store : \A e \in pending : e.key # x.key } \cup pending

\* The writes of one StoreEvent call, in the order of the code.
IndexWrites(event, obj, data, expiresAt) ==
  << Entry(timeKey(event, obj.uid), data, expiresAt),
     Entry(objectKey(event, obj.uid), data, expiresAt) >>
  \o (IF WritesReference(event, obj)
      THEN << Entry(refKey(event, ExtractInvolvedObject(obj), obj.uid), data, expiresAt) >>
      ELSE << >>)

\* An entry whose ExpiresAt has passed is invisible to every read.
Expired(e, t) == e.expiresAt <= Unix(t)
Visible(store, t) == { e \in store : ~Expired(e, t) }

RECURSIVE Enumerate(_)
Enumerate(entries) ==
  IF entries = {} THEN << >>
  ELSE LET e == CHOOSE x \in entries : TRUE
       IN  << e >> \o Enumerate(entries \ { e })

KeyLess(x, y) == BytesLess(x.key, y.key)

\* The entries of a read transaction in iteration (byte-wise key) order.
Iterate(entries) == SortSeq(Enumerate(entries), KeyLess)

\* iter.Seek(key): the position of the first entry whose key is >= key.
Seek(it, key) ==
  Cardinality({ i \in 1..Len(it) : BytesLess(it[i].key, key) }) + 1

\* Variant of ValidForPrefix that only checks that the iterator has an entry.
ValidWhileEntries(it, i, prefix) == i <= Len(it)

\* iter.ValidForPrefix(prefix) at position i.
ValidForPrefix(it, i, prefix) == i <= Len(it) /\ HasPrefix(it[i].key, prefix)

RECURSIVE PrefixLoop(_, _, _)
\* for iter.Seek(prefix); iter.ValidForPrefix(prefix); iter.Next() { append }
PrefixLoop(it, i, prefix) ==
  IF ~ValidForPrefix(it, i, prefix) THEN << >>
  ELSE << Unmarshal(it[i].value) >> \o PrefixLoop(it, i + 1, prefix)

\* The prefix of GetObjectHistory.
objectPrefix(namespace, resourceType, name) ==
  JoinSlash(<< << "o", "b", "j", "e", "c", "t", "s" >>, namespace, resourceType, name, << >> >>)

\* Store.GetObjectHistory over the entries of its read transaction.
GetObjectHistory(view, namespace, resourceType, name) ==
  LET it == Iterate(view)
      prefix == objectPrefix(namespace, resourceType, name)
  IN  PrefixLoop(it, Seek(it, prefix), prefix)

\* The prefix of GetRelatedEvents.
refPrefix(namespace, kind, name) ==
  JoinSlash(<< << "e", "v", "e", "n", "t", "R", "e", "f", "s" >>, namespace, kind, name, << >> >>)

\* Store.GetRelatedEvents over the entries of its read transaction.
GetRelatedEvents(view, namespace, kind, name) ==
  LET it == Iterate(view)
      prefix == refPrefix(namespace, kind, name)
  IN  PrefixLoop(it, Seek(it, prefix), prefix)

\* storage.QueryOptions
QueryOptions(start, end, namespace, resourceType, resourceName, verb, user, limit) ==
  [ StartTime |-> start, EndTime |-> end, Namespace |-> namespace,
    ResourceType |-> resourceType, ResourceName |-> resourceName,
    Verb |-> verb, User |-> user, Limit |-> limit ]

\* The limit QueryEvents applies.
QueryLimit(opts) == IF opts.Limit <= 0 THEN 1000 ELSE opts.Limit

\* The key QueryEvents seeks to.
QuerySeekKey(opts) ==
  << "e", "v", "e", "n", "t", "s", "/" >> \o (IF ~IsZero(opts.StartTime) THEN FormatRFC3339(opts.StartTime) ELSE << >>)

RECURSIVE QueryLoop(_, _, _, _)
\* The scan loop of QueryEvents from position i with events accepted so far.
QueryLoop(it, i, opts, events) ==
  IF ~ValidForPrefix(it, i, << "e", "v", "e", "n", "t", "s", "/" >>) THEN events
  ELSE IF Len(events) >= QueryLimit(opts) THEN events
  ELSE LET parts == SplitSlash(it[i].key)
           next == QueryLoop(it, i + 1, opts, events)
       IN  IF Len(parts) < 6 THEN next
           ELSE LET parsed == ParseRFC3339(parts[2])
                    timestamp == parsed.tm
                IN  IF ~parsed.ok THEN next
                    ELSE IF ~IsZero(opts.EndTime) /\ After(timestamp, opts.EndTime)
                    THEN events
                    ELSE IF ~IsZero(opts.StartTime) /\ Before(timestamp, opts.StartTime)
                    THEN next
                    ELSE IF opts.Namespace # << >> /\ parts[3] # opts.Namespace THEN next
                    ELSE IF opts.ResourceType # << >> /\ parts[4] # opts.ResourceType
                    THEN next
                    ELSE IF opts.ResourceName # << >> /\ parts[5] # opts.ResourceName
                    THEN next
                    ELSE LET event == Unmarshal(it[i].value)
                         IN  IF opts.Verb # "" /\ event.verb # opts.Verb THEN next
                             ELSE IF opts.User # "" /\ event.user # opts.User THEN next
                             ELSE QueryLoop(it, i + 1, opts, Append(events, event))

\* Store.QueryEvents over the entries of its read transaction.
QueryEvents(view, opts) ==
  LET it == Iterate(view)
  IN  QueryLoop(it, Seek(it, QuerySeekKey(opts)), opts, << >>)

\* ----------------------------------------------------------------- cluster

\* An unstructured object as the informer delivers it.
Object(kind, namespace, name, uid, involved) ==
  [ kind |-> kind, namespace |-> namespace, name |-> name, uid |-> uid,
    involved |-> involved ]

\* The kinds with a registered watcher; one informer, and one goroutine
\* calling its handlers, per kind.
Kinds == { << "P", "o", "d" >>, << "E", "v", "e", "n", "t" >> }

\* The objects of the cluster: pod default/p1 and its re-creation under a
\* new uid, and Event objects: about the pod, about a service, and one
\* whose involvedObject has no name.
Objects ==
  { Object(<< "P", "o", "d" >>, << "d", "e", "f", "a", "u", "l", "t" >>, << "p", "1" >>, << "b" >>, NoInvolved),
    Object(<< "P", "o", "d" >>, << "d", "e", "f", "a", "u", "l", "t" >>, << "p", "1" >>, << "a" >>, NoInvolved),
    Object(<< "E", "v", "e", "n", "t" >>, << "d", "e", "f", "a", "u", "l", "t" >>, << "e", "1" >>, << "c" >>, Involved(<< "P", "o", "d" >>, << "d", "e", "f", "a", "u", "l", "t" >>, << "p", "1" >>)),
    Object(<< "E", "v", "e", "n", "t" >>, << "d", "e", "v" >>, << "e", "2" >>, << "d" >>, Involved(<< "S", "e", "r", "v", "i", "c", "e" >>, << "d", "e", "v" >>, << "s", "1" >>)),
    Object(<< "E", "v", "e", "n", "t" >>, << "d", "e", "f", "a", "u", "l", "t" >>, << "e", "3" >>, << "e" >>, Involved(<< "P", "o", "d" >>, << "d", "e", "f", "a", "u", "l", "t" >>, << >>)) }

\* ------------------------------------------------------------------- state

VARIABLES
  now,      \* the wall clock, in ticks
  ticks,    \* how often the clock was advanced
  loc,      \* offset of the process's time zone (time.Local)
  cluster,  \* the objects that exist in the cluster
  db,       \* the committed entries of the store
  worker,   \* per kind: where the informer goroutine is in its callback
  hist,     \* every callback so far, in the order of TransformWatchEvent
  reader,   \* the API request being served and what it has read
  main,     \* where main stands, the store, the listener, main's ctx and
            \* the GC routine main started
  call,     \* the last call of a function called alone: of the transformer, of
            \* loadConfig, or of a callback whose payload is dropped
  manager   \* the watcher manager: what Start was given and what it did

vars == << now, ticks, loc, cluster, db, worker, hist, reader, main, call, manager >>

Idle == [ pc |-> "idle", h |-> 0, data |-> << >>, expiresAt |-> 0, pending |-> {} ]

NoRequest ==
  [ pc |-> "idle", op |-> "none", args |-> << >>, view |-> {}, status |-> 0,
    events |-> << >>, related |-> << >>, limit |-> 0, total |-> 0,
    hasMore |-> FALSE, reads |-> 0, err |-> FALSE, ctx |-> "live" ]

\* main after api.NewServer and the start of ListenAndServe: the store is
\* open and the HTTP server accepts requests.
Serving ==
  [ pc |-> "serving", store |-> "open", http |-> "listening", ctx |-> "live",
    gc |-> "select", ticker |-> 0, fired |-> 0, passes |-> 0, gcErr |-> "nil",
    code |-> 0, synced |-> "yes" ]

\* watchers.NewManager: nothing is registered yet.
NewManager ==
  [ err |-> "none", args |-> << >>, attempted |-> << >>, handlers |-> << >>,
    crdInformer |-> FALSE, added |-> {} ]

\* No function of the transformer has been called.
NoCall == [ op |-> "none", args |-> << >>, out |-> << >> ]

Init ==
  /\ now = 0
  /\ ticks = 0
  /\ loc \in Zones
  /\ cluster = {}
  /\ db = {}
  /\ worker = [ k \in Kinds |-> Idle ]
  /\ hist = << >>
  /\ reader = NoRequest
  /\ main = Serving
  /\ call = NoCall
  /\ manager = NewManager

\* The wall clock moves.
Tick(d) ==
  /\ ticks < MaxTicks
  /\ now' = now + d
  /\ ticks' = ticks + 1
  /\ UNCHANGED << loc, cluster, db, worker, hist, reader, main, call, manager >>

\* ---------------------------------------------------------------- callbacks

\* The body shared by handleAdd, handleUpdate and handleDelete up to the
\* call of StoreEvent: the payload is an *unstructured.Unstructured and is
\* transformed; the callback then stands at StoreEvent.
Callback(k, obj, eventType) ==
  /\ worker[k].pc = "idle"
  /\ obj.kind = k
  /\ Len(hist) < MaxEvents
  /\ hist' = Append(hist, [ obj |-> obj, eventType |-> eventType,
                            event |-> TransformWatchEvent(obj, eventType, now, loc),
                            status |-> "transformed" ])
  /\ worker' = [ worker EXCEPT ![k] = [ Idle EXCEPT !.pc = "StoreEvent",
                                                     !.h = Len(hist) + 1 ] ]
  /\ UNCHANGED << now, ticks, loc, db, reader, main, call, manager >>

\* Manager.handleAdd: the informer reports an object that came into being.
handleAdd(k, obj) ==
  /\ \A o \in cluster : << o.kind, o.namespace, o.name >> # << obj.kind, obj.namespace, obj.name >>
  /\ \A i \in 1..Len(hist) : hist[i].obj # obj
  /\ cluster' = cluster \cup { obj }
  /\ Callback(k, obj, "ADDED")

\* The informer's update notification: oldObj is the version its cache held,
\* newObj the one that replaces it under the same kind, namespace and name
\* (after a relist that may be a re-creation under a new uid; in a resync
\* the two are the same).
Replaces(oldObj, newObj) ==
  /\ oldObj \in cluster
  /\ << oldObj.kind, oldObj.namespace, oldObj.name >> = << newObj.kind, newObj.namespace, newObj.name >>
  /\ cluster' = (cluster \ { oldObj }) \cup { newObj }

\* Manager.handleUpdate: only the new object is used.
handleUpdate(k, oldObj, newObj) ==
  /\ Replaces(oldObj, newObj)
  /\ Callback(k, newObj, "MODIFIED")

\* Manager.handleDelete: the last-known object.
handleDelete(k, obj) ==
  /\ obj \in cluster
  /\ cluster' = cluster \ { obj }
  /\ Callback(k, obj, "DELETED")

\* The callback returns: StoreEvent's error, if any, was printed.
Return(k, status) ==
  /\ hist' = [ hist EXCEPT ![worker[k].h].status = status ]
  /\ worker' = [ worker EXCEPT ![k] = Idle ]

\* Variant of Discard in which the buffered writes reach the store.
DiscardKeepsWrites(store, pending) ==
  { x \in store : \A e \in pending : e.key # x.key } \cup pending

\* txn.Discard after an error: the buffered writes are dropped.
Discard(store, pending) == store

RECURSIVE SetEntries(_, _)
\* The first n txn.SetEntry calls of the function passed to db.Update.
SetEntries(writes, n) ==
  IF n = 0 THEN {} ELSE SetEntry(SetEntries(writes, n - 1), writes[n])

\* StoreEvent up to the end of the function passed to db.Update:
\* json.Marshal, ttl, expiresAt, uid, and the SetEntry calls, whose writes
\* stay in the transaction. Any of these may return an error.
StoreEventUpdate(k) ==
  LET w == worker[k]
      event == hist[w.h].event
      data == Marshal(event)
      expiresAt == ExpiresAt(now)
      writes == IndexWrites(event, hist[w.h].obj, data, expiresAt)
  IN  /\ w.pc = "StoreEvent"
      /\ \/ /\ worker' = [ worker EXCEPT ![k].pc = "commit", ![k].data = data,
                             ![k].expiresAt = expiresAt,
                             ![k].pending = SetEntries(writes, Len(writes)) ]
            /\ hist' = hist
            /\ db' = db
         \/ /\ db' = db                       \* json.Marshal returned an error
            /\ Return(k, "failed")
         \/ \E n \in 1..Len(writes) :         \* the n-th SetEntry returned an error
              /\ db' = Discard(db, SetEntries(writes, n - 1))
              /\ Return(k, "failed")
      /\ UNCHANGED << now, ticks, loc, cluster, reader, main, call, manager >>

\* The function passed to db.Update returned nil: txn.Commit.
CommitTxn(k) ==
  LET w == worker[k]
  IN  /\ w.pc = "commit"
      /\ \/ /\ db' = Commit(db, w.pending)
            /\ Return(k, "stored")
         \/ /\ db' = Discard(db, w.pending)   \* Commit returned an error
            /\ Return(k, "failed")
      /\ UNCHANGED << now, ticks, loc, cluster, reader, main, call, manager >>

\* A whole callback, from the type assertion to StoreEvent's return, run
\* without another goroutine in between and without an error.
CallbackCall(obj, eventType) ==
  LET event == TransformWatchEvent(obj, eventType, now, loc)
      writes == IndexWrites(event, obj, Marshal(event), ExpiresAt(now))
  IN  /\ \A k \in Kinds : worker[k].pc = "idle"
      /\ Len(hist) < MaxCalls
      /\ hist' = Append(hist, [ obj |-> obj, eventType |-> eventType,
                                event |-> event, status |-> "stored" ])
      /\ db' = Commit(db, SetEntries(writes, Len(writes)))
      /\ UNCHANGED << now, ticks, loc, worker, reader, main, call, manager >>

\* Manager.handleAdd, from call to return.
handleAddCall(obj) ==
  /\ \A o \in cluster : << o.kind, o.namespace, o.name >> # << obj.kind, obj.namespace, obj.name >>
  /\ \A i \in 1..Len(hist) : hist[i].obj # obj
  /\ cluster' = cluster \cup { obj }
  /\ CallbackCall(obj, "ADDED")

\* Variant of handleUpdateCall that builds the record from the old object.
handleUpdateCallOfOld(oldObj, newObj) ==
  /\ Replaces(oldObj, newObj)
  /\ CallbackCall(oldObj, "MODIFIED")

\* Manager.handleUpdate, from call to return.
handleUpdateCall(oldObj, newObj) ==
  /\ Replaces(oldObj, newObj)
  /\ CallbackCall(newObj, "MODIFIED")

\* Manager.handleDelete, from call to return.
handleDeleteCall(obj) ==
  /\ obj \in cluster
  /\ cluster' = cluster \ { obj }
  /\ CallbackCall(obj, "DELETED")

\* Variant of handleDeleteFinalStateUnknown that takes the last-known
\* object out of the tombstone and stores its delete record.
handleDeleteUnwrapsTombstone(obj) ==
  LET event == TransformWatchEvent(obj, "DELETED", now, loc)
      writes == IndexWrites(event, obj, Marshal(event), ExpiresAt(now))
  IN  /\ obj \in cluster
      /\ Len(hist) < MaxCalls
      /\ cluster' = cluster \ { obj }
      /\ call' = [ op |-> "handleDelete", args |-> << [ tombstone |-> obj ] >>, out |-> << >> ]
      /\ hist' = Append(hist, [ obj |-> obj, eventType |-> "DELETED",
                                event |-> event, status |-> "stored" ])
      /\ db' = Commit(db, SetEntries(writes, Len(writes)))
      /\ UNCHANGED << now, ticks, loc, worker, reader, main, manager >>

\* Manager.handleDelete called with a cache.DeletedFinalStateUnknown that
\* wraps the last-known object (the informer missed the deletion): the
\* payload is not an *unstructured.Unstructured, a warning is printed and
\* the callback returns.
handleDeleteFinalStateUnknown(obj) ==
  /\ obj \in cluster
  /\ Len(hist) < MaxCalls
  /\ cluster' = cluster \ { obj }
  /\ call' = [ op |-> "handleDelete", args |-> << [ tombstone |-> obj ] >>, out |-> << >> ]
  /\ UNCHANGED << now, ticks, loc, db, worker, hist, reader, main, manager >>

\* ------------------------------------------------------------------ API

\* db.View: the entries a read transaction sees, begun at clock reading t.
View(store, t) == Visible(store, t)

\* A start or end parameter: absent, an RFC-3339 time, or malformed.
NoTime == [ str |-> "absent", tm |-> ZeroTime ]
TimeParam(t, zone) == [ str |-> "valid", tm |-> [ t |-> t, zone |-> zone ] ]
BadTime == [ str |-> "malformed", tm |-> ZeroTime ]

\* A limit parameter: absent, an integer, or malformed.
NoLimit == [ str |-> "absent", n |-> 0 ]
LimitParam(n) == [ str |-> "int", n |-> n ]
BadLimit == [ str |-> "malformed", n |-> 0 ]

\* The query parameters of GET /api/v1/events.
Request(start, end, namespace, resourceType, resourceName, verb, user, limit) ==
  [ start |-> start, end |-> end, namespace |-> namespace,
    resourceType |-> resourceType, resourceName |-> resourceName,
    verb |-> verb, user |-> user, limit |-> limit ]

\* Variant of EffectiveLimit that does not compare with the maximum.
EffectiveLimitUncapped(limit) ==
  IF limit.str = "int" /\ limit.n > 0 THEN limit.n ELSE MaxQueryLimit

\* Variant of EffectiveLimit that takes an integer below the maximum as it
\* is given.
EffectiveLimitAsGiven(limit) ==
  IF limit.str = "int" /\ limit.n < MaxQueryLimit THEN limit.n ELSE MaxQueryLimit

\* The limit handleQueryEvents passes to the store and compares against.
EffectiveLimit(limit) ==
  IF limit.str = "int" /\ limit.n > 0 /\ limit.n < MaxQueryLimit
  THEN limit.n ELSE MaxQueryLimit

\* The options handleQueryEvents builds from well-formed parameters.
RequestOptions(req) ==
  QueryOptions(req.start.tm, req.end.tm, req.namespace, req.resourceType,
               req.resourceName, req.verb, req.user, EffectiveLimit(req.limit))

\* Variant of QueryStatus that answers an empty result with success.
QueryStatusAlwaysOK(events) == 200

\* The status handleQueryEvents answers with when its parameters parse.
QueryStatus(events) == IF Len(events) = 0 THEN 404 ELSE 200

\* Variant of Malformed that does not look at the limit.
MalformedTimesOnly(req) ==
  req.start.str = "malformed" \/ req.end.str = "malformed"

\* time.Parse of start or of end, or strconv.Atoi of limit, returns an
\* error.
Malformed(req) ==
  \/ req.start.str = "malformed"
  \/ req.end.str = "malformed"
  \/ req.limit.str = "malformed"

\* Variant of HasMore that is true only beyond the limit.
HasMoreBeyondLimit(count, limit) == count > limit

\* The header X-Has-More of a response with count records.
HasMore(count, limit) == count >= limit

\* Server.handleQueryEvents, from the request to the response, the store
\* returning no error: 400 before the store is read, 404 without the
\* pagination headers, or 200 with both of them. reads counts the read
\* transactions of the request.
handleQueryEvents(req) ==
  /\ reader.pc = "idle"
  /\ IF Malformed(req)
     THEN reader' = [ NoRequest EXCEPT !.pc = "done", !.op = "query",
                                       !.args = req, !.status = 400 ]
     ELSE LET events == QueryEvents(View(db, now), RequestOptions(req))
              limit == EffectiveLimit(req.limit)
              answer == [ NoRequest EXCEPT
                !.pc = "done", !.op = "query", !.args = req,
                !.view = View(db, now), !.reads = 1,
                !.status = QueryStatus(events),
                !.limit = limit ]
          IN  IF QueryStatus(events) = 404
              THEN reader' = answer
              ELSE reader' = [ answer EXCEPT
                     !.events = events,
                     !.total = Len(events),
                     !.hasMore = HasMore(Len(events), limit) ]
  /\ UNCHANGED << now, ticks, loc, cluster, db, worker, hist, main, call, manager >>

\* The requests a client makes at clock reading t: time ranges that end at
\* or just before t, in UTC or in the client's own zone, a filter on each
\* field, limits below, at and above the maximum, zero and negative, and
\* malformed parameters.
QueryRequests(t) ==
  LET starts == { NoTime } \cup { TimeParam(t, z) : z \in Zones }
      ends == { NoTime } \cup (IF t > 0 THEN { TimeParam(t - 1, 0) } ELSE {})
      any == << >>
  IN  { Request(s, e, any, any, any, "", "", NoLimit) : s \in starts, e \in ends }
      \cup { Request(NoTime, NoTime, << "d", "e", "f", "a", "u", "l", "t" >>, any, any, "", "", NoLimit),
             Request(NoTime, NoTime, any, << "p", "o", "d", "s" >>, any, "", "", NoLimit),
             Request(NoTime, NoTime, any, any, << "e", "1" >>, "", "", NoLimit),
             Request(NoTime, NoTime, any, any, any, "create", "", NoLimit),
             Request(NoTime, NoTime, any, any, any, "", SystemWatcherUser, NoLimit),
             Request(NoTime, NoTime, any, any, any, "", "", BadLimit),
             Request(BadTime, NoTime, any, any, any, "", "", NoLimit) }
      \cup { Request(NoTime, NoTime, any, any, any, "", "", LimitParam(n)) :
               n \in (-1)..(MaxQueryLimit + 1) }

\* The request without parameters: a scan of the whole time index.
ScanRequests ==
  { Request(NoTime, NoTime, << >>, << >>, << >>, "", "", NoLimit) }

\* The objects asked about: (namespace, resourceType, name).
HistoryTargets ==
  { << << "d", "e", "f", "a", "u", "l", "t" >>, << "p", "o", "d", "s" >>, << "p", "1" >> >>,
    << << "d", "e", "v" >>, << "s", "e", "r", "v", "i", "c", "e", "s" >>, << "s", "1" >> >>,
    << << "d", "e", "f", "a", "u", "l", "t" >>, << "e", "v", "e", "n", "t", "s" >>, << "e", "1" >> >> }

\* handleObjectHistory up to and including GetObjectHistory.
handleObjectHistory(namespace, resourceType, name) ==
  /\ reader.pc = "idle"
  /\ namespace # << >> /\ resourceType # << >> /\ name # << >>
  /\ reader' = [ NoRequest EXCEPT
       !.pc = "related", !.op = "history",
       !.args = << namespace, resourceType, name >>,
       !.view = View(db, now), !.reads = 1,
       !.events = GetObjectHistory(View(db, now), namespace, resourceType, name) ]
  /\ UNCHANGED << now, ticks, loc, cluster, db, worker, hist, main, call, manager >>

\* Variant of HistoryStatus that looks at the watch events only.
HistoryStatusWatchOnly(watchEvents, relatedEvents) ==
  IF Len(watchEvents) = 0 THEN 404 ELSE 200

\* The status handleObjectHistory answers with.
HistoryStatus(watchEvents, relatedEvents) ==
  IF Len(watchEvents) = 0 /\ Len(relatedEvents) = 0 THEN 404 ELSE 200

\* handleObjectHistory from resourceTypeToKind on: GetRelatedEvents in a
\* read transaction of its own, and the response.
handleObjectHistoryRelated ==
  /\ reader.pc = "related"
  /\ LET kind == resourceTypeToKind(reader.args[2])
         relatedEvents == GetRelatedEvents(View(db, now), reader.args[1], kind, reader.args[3])
     IN  reader' = [ reader EXCEPT
           !.pc = "done",
           !.view = View(db, now), !.reads = 2,
           !.related = relatedEvents,
           !.status = HistoryStatus(reader.events, relatedEvents) ]
  /\ UNCHANGED << now, ticks, loc, cluster, db, worker, hist, main, call, manager >>

\* The response is written and the handler returns.
Respond ==
  /\ reader.pc = "done"
  /\ reader' = NoRequest
  /\ UNCHANGED << now, ticks, loc, cluster, db, worker, hist, main, call, manager >>

\* Server.handleQueryEvents when QueryEvents returns an error: 500.
handleQueryEventsStoreError(req) ==
  /\ reader.pc = "idle"
  /\ ~Malformed(req)
  /\ reader' = [ NoRequest EXCEPT !.pc = "done", !.op = "query", !.args = req,
                                  !.reads = 1, !.err = TRUE, !.status = 500 ]
  /\ UNCHANGED << now, ticks, loc, cluster, db, worker, hist, main, call, manager >>

\* Server.handleObjectHistory when GetObjectHistory returns an error: 500.
handleObjectHistoryStoreError(namespace, resourceType, name) ==
  /\ reader.pc = "idle"
  /\ namespace # << >> /\ resourceType # << >> /\ name # << >>
  /\ reader' = [ NoRequest EXCEPT
       !.pc = "done", !.op = "history",
       !.args = << namespace, resourceType, name >>,
       !.reads = 1, !.err = TRUE, !.status = 500 ]
  /\ UNCHANGED << now, ticks, loc, cluster, db, worker, hist, main, call, manager >>

\* Server.handleObjectHistory when GetRelatedEvents returns an error: 500.
handleObjectHistoryRelatedStoreError ==
  /\ reader.pc = "related"
  /\ reader' = [ reader EXCEPT !.pc = "done", !.reads = 2, !.err = TRUE,
                               !.status = 500 ]
  /\ UNCHANGED << now, ticks, loc, cluster, db, worker, hist, main, call, manager >>

\* The client of the history request goes away after GetObjectHistory has
\* returned: r.Context(), which the handler passes to both reads, is
\* cancelled. Neither GetObjectHistory nor GetRelatedEvents nor QueryEvents
\* reads its ctx, so the handler goes on as without the cancellation.
CancelRequest ==
  /\ reader.pc = "related"
  /\ reader.ctx = "live"
  /\ reader' = [ reader EXCEPT !.ctx = "cancelled" ]
  /\ UNCHANGED << now, ticks, loc, cluster, db, worker, hist, main, call, manager >>

\* Server.ServeHTTP: the router hands GET /health to handleHealth.
ServeHealth ==
  /\ reader.pc = "idle"
  /\ reader' = [ NoRequest EXCEPT !.pc = "routed", !.op = "health" ]
  /\ UNCHANGED << now, ticks, loc, cluster, db, worker, hist, main, call, manager >>

\* Variant of handleHealth that probes the store by writing an entry.
handleHealthWritesProbe ==
  /\ reader.pc = "routed"
  /\ reader.op = "health"
  /\ reader' = [ reader EXCEPT !.pc = "done", !.status = 200 ]
  /\ db' = Commit(db, { Entry(<< "h", "e", "a", "l", "t", "h" >>, << >>, 0) })
  /\ UNCHANGED << now, ticks, loc, cluster, worker, hist, main, call, manager >>

\* Server.handleHealth: status 200 and {"status": "healthy"}; the store is
\* not consulted.
handleHealth ==
  /\ reader.pc = "routed"
  /\ reader.op = "health"
  /\ reader' = [ reader EXCEPT !.pc = "done", !.status = 200 ]
  /\ UNCHANGED << now, ticks, loc, cluster, db, worker, hist, main, call, manager >>

\* ----------------------------------------------------------------- shutdown

\* main receives SIGINT or SIGTERM and calls httpServer.Shutdown, which
\* closes the listener.
Interrupt ==
  /\ main.pc = "serving"
  /\ main' = [ main EXCEPT !.pc = "Shutdown", !.http = "closed" ]
  /\ UNCHANGED << now, ticks, loc, cluster, db, worker, hist, reader, call, manager >>

\* Variant of cancel that re-arms a context that was already cancelled.
cancelToggles(ctx) == IF ctx = "live" THEN "cancelled" ELSE "live"

\* The CancelFunc of context.WithCancel: the first call cancels the
\* context, a later call does nothing.
cancel(ctx) == IF ctx = "live" THEN "cancelled" ELSE ctx

\* httpServer.Shutdown returns: every handler has returned, or the 30
\* seconds of shutdownCtx are over with a handler still running (the error
\* is logged). main calls cancel(), which tells the watchers and the GC
\* routine to stop, and returns.
ShutdownReturns ==
  /\ main.pc = "Shutdown"
  /\ \/ reader.pc = "idle"
     \/ reader.pc # "idle"       \* context deadline exceeded
  /\ main' = [ main EXCEPT !.pc = "cancel", !.ctx = cancel(main.ctx) ]
  /\ UNCHANGED << now, ticks, loc, cluster, db, worker, hist, reader, call, manager >>

\* The deferred calls run in reverse order: shutdownCancel(), then cancel()
\* once more.
DeferredCancel ==
  /\ main.pc = "cancel"
  /\ main' = [ main EXCEPT !.pc = "Close", !.ctx = cancel(main.ctx) ]
  /\ UNCHANGED << now, ticks, loc, cluster, db, worker, hist, reader, call, manager >>

\* The deferred store.Close() runs.
Close ==
  /\ main.pc = "Close"
  /\ main' = [ main EXCEPT !.pc = "exit", !.store = "closed" ]
  /\ UNCHANGED << now, ticks, loc, cluster, db, worker, hist, reader, call, manager >>

\* main has returned: the process ends, and with it every goroutine.
Exit ==
  /\ main.pc = "exit"
  /\ main' = [ main EXCEPT !.pc = "exited" ]
  /\ reader' = NoRequest
  /\ UNCHANGED << now, ticks, loc, cluster, db, worker, hist, call, manager >>

\* ------------------------------------------------------------- GC routine

\* How often the hourly ticker fires in a run.
MaxHours == 2

\* What RunValueLogGC returns.
GCResults == { "nil", "ErrNoRewrite", "error" }

\* An hour has passed: the ticker sends on its channel, which buffers one
\* tick; a tick is dropped while one is waiting.
TickerFires ==
  /\ main.pc # "exited"
  /\ main.gc # "returned"
  /\ main.fired < MaxHours
  /\ main' = [ main EXCEPT !.ticker = 1, !.fired = main.fired + 1 ]
  /\ UNCHANGED << now, ticks, loc, cluster, db, worker, hist, reader, call, manager >>

\* StartGCRoutine, case <-ticker.C: the routine calls RunGC.
StartGCRoutineTick ==
  /\ main.pc # "exited"
  /\ main.gc = "select"
  /\ main.ticker = 1
  /\ main' = [ main EXCEPT !.ticker = 0, !.gc = "RunGC" ]
  /\ UNCHANGED << now, ticks, loc, cluster, db, worker, hist, reader, call, manager >>

\* Variant of AfterRunGC in which an error other than ErrNoRewrite ends the
\* routine.
AfterRunGCStopsOnError(err) ==
  IF err \in { "nil", "ErrNoRewrite" } THEN "select" ELSE "returned"

\* StartGCRoutine after RunGC: an error other than ErrNoRewrite is printed;
\* the loop goes on with the next select.
AfterRunGC(err) == "select"

\* RunGC returns: the value log was rewritten, or there was nothing to
\* rewrite, or the pass failed. No key becomes visible or invisible.
RunGC(err) ==
  /\ main.pc # "exited"
  /\ main.gc = "RunGC"
  /\ main' = [ main EXCEPT !.gc = AfterRunGC(err), !.passes = main.passes + 1,
                            !.gcErr = err ]
  /\ UNCHANGED << now, ticks, loc, cluster, db, worker, hist, reader, call, manager >>

\* StartGCRoutine, case <-ctx.Done(): the routine returns. With a tick
\* waiting as well, select takes either case.
StartGCRoutineDone ==
  /\ main.pc # "exited"
  /\ main.gc = "select"
  /\ main.ctx = "cancelled"
  /\ main' = [ main EXCEPT !.gc = "returned" ]
  /\ UNCHANGED << now, ticks, loc, cluster, db, worker, hist, reader, call, manager >>

\* ---------------------------------------------------------- watcher manager

\* A resource type to watch (config.ResourceWatch; Plural and Namespaced
\* select nothing).
ResourceWatch(group, version, kind) == [ group |-> group, version |-> version, kind |-> kind ]

\* Manager.addWatcher: GetInformer and AddEventHandler for the type; when
\* either fails no handler is registered and the error is returned (the
\* error is: resource \in m.args.failing).
addWatcher(m, resource) ==
  [ m EXCEPT !.attempted = Append(@, resource),
             !.handlers = IF resource \in m.args.failing THEN @ ELSE Append(@, resource) ]

\* Variant of isResourceConfigured that compares the group alone.
isResourceConfiguredByGroup(resources, group, kind) ==
  \E i \in 1..Len(resources) : resources[i].group = group

\* Manager.isResourceConfigured.
isResourceConfigured(resources, group, kind) ==
  \E i \in 1..Len(resources) : resources[i].group = group /\ resources[i].kind = kind

\* Variant of addServedVersions that gives up at the first failure.
RECURSIVE addServedVersionsUntilFailure(_, _, _)
addServedVersionsUntilFailure(m, crd, j) ==
  IF j > Len(crd.versions) THEN m
  ELSE LET resource == ResourceWatch(crd.group, crd.versions[j].name, crd.kind)
       IN  IF ~crd.versions[j].served THEN addServedVersionsUntilFailure(m, crd, j + 1)
           ELSE IF resource \in m.args.failing THEN addWatcher(m, resource)
           ELSE addServedVersionsUntilFailure(addWatcher(m, resource), crd, j + 1)

\* The loop over crd.Spec.Versions, in discoverCRDs and in the AddFunc of
\* watchCRDChanges, from the j-th version on: a version that is not served
\* is skipped, a failure of addWatcher is printed and the loop goes on.
RECURSIVE addServedVersions(_, _, _)
addServedVersions(m, crd, j) ==
  IF j > Len(crd.versions) THEN m
  ELSE IF ~crd.versions[j].served THEN addServedVersions(m, crd, j + 1)
  ELSE addServedVersions(
         addWatcher(m, ResourceWatch(crd.group, crd.versions[j].name, crd.kind)), crd, j + 1)

\* Manager.watchCRDChanges: the AddFunc is registered with the informer of
\* the CustomResourceDefinition type, unless GetInformer or AddEventHandler
\* fails.
watchCRDChanges(m) ==
  IF m.args.informerErr THEN m ELSE [ m EXCEPT !.crdInformer = TRUE ]

\* The loop over crdList.Items in discoverCRDs, from the i-th item on.
RECURSIVE discoverItems(_, _)
discoverItems(m, i) ==
  IF i > Len(m.args.crds) THEN m
  ELSE LET crd == m.args.crds[i]
       IN  IF isResourceConfigured(m.args.resources, crd.group, crd.kind)
           THEN discoverItems(m, i + 1)
           ELSE discoverItems(addServedVersions(m, crd, 1), i + 1)

\* Manager.discoverCRDs: when c.List fails the error is returned at once;
\* otherwise the listed definitions are gone through and watchCRDChanges is
\* called, whose error is printed.
discoverCRDs(m) ==
  IF m.args.listErr THEN m ELSE watchCRDChanges(discoverItems(m, 1))

\* Variant of StartResources that prints the error of addWatcher and goes on.
RECURSIVE StartResourcesSkipsFailures(_, _)
StartResourcesSkipsFailures(m, i) ==
  IF i > Len(m.args.resources) THEN m
  ELSE StartResourcesSkipsFailures(addWatcher(m, m.args.resources[i]), i + 1)

\* The loop over config.Resources in Manager.Start, from the i-th
\* descriptor on: the first failure of addWatcher ends Start with an error.
RECURSIVE StartResources(_, _)
StartResources(m, i) ==
  IF i > Len(m.args.resources) THEN m
  ELSE IF m.args.resources[i] \in m.args.failing
  THEN [ addWatcher(m, m.args.resources[i]) EXCEPT !.err = "error" ]
  ELSE StartResources(addWatcher(m, m.args.resources[i]), i + 1)

\* Manager.Start on a manager whose config and environment are args: the
\* error of discoverCRDs is printed, and Start returns nil.
Start(args) ==
  LET m == StartResources([ NewManager EXCEPT !.args = args ], 1)
  IN  IF m.err = "error" THEN m
      ELSE [ (IF args.discoverCRDs THEN discoverCRDs(m) ELSE m) EXCEPT !.err = "nil" ]

\* ------------------------------------------------------------------ startup

\* main after NewStore, the start of the GC routine and ctrl.NewManager:
\* about to call watcherMgr.Start.
AtStart == [ Serving EXCEPT !.pc = "Start", !.http = "closed", !.synced = "no" ]

\* main after loadConfig, about to call storage.NewStore.
AtNewStore == [ AtStart EXCEPT !.pc = "NewStore", !.store = "unopened" ]

\* storage.NewStore returns: the store is open, and main starts the GC
\* routine and creates the managers; or badger.Open failed, and main logs
\* and calls os.Exit(1).
NewStore(opened) ==
  /\ main.pc = "NewStore"
  /\ main' = IF opened THEN AtStart ELSE [ main EXCEPT !.pc = "os.Exit" ]
  /\ UNCHANGED << now, ticks, loc, cluster, db, worker, hist, reader, call, manager >>

\* The static configurations of the runs: pods and events, or pods and a
\* custom type.
StaticConfigs ==
  { << ResourceWatch("", "v1", "Pod"), ResourceWatch("", "v1", "Event") >>,
    << ResourceWatch("", "v1", "Pod"), ResourceWatch("example.com", "v1", "Widget") >> }

\* The custom resource definitions of the cluster: Widget serves v1 and no
\* longer v2, Gadget serves v1 and v1beta1.
Widget ==
  [ group |-> "example.com", kind |-> "Widget",
    versions |-> << [ name |-> "v1", served |-> TRUE ], [ name |-> "v2", served |-> FALSE ] >> ]
Gadget ==
  [ group |-> "example.com", kind |-> "Gadget",
    versions |-> << [ name |-> "v1", served |-> TRUE ], [ name |-> "v1beta1", served |-> TRUE ] >> ]

\* What Start is given: the configuration, what c.List returns, whether
\* the informer of the CustomResourceDefinition type can be had, and the
\* types for which addWatcher fails.
StartArgs ==
  [ resources : StaticConfigs,
    discoverCRDs : BOOLEAN,
    crds : { << Gadget >>, << Widget, Gadget >> },
    listErr : BOOLEAN,
    informerErr : BOOLEAN,
    failing : SUBSET { ResourceWatch("", "v1", "Event"),
                       ResourceWatch("example.com", "v1", "Widget"),
                       ResourceWatch("example.com", "v1", "Gadget") } ]

\* main calls watcherMgr.Start(ctx); on an error it logs and calls
\* os.Exit(1).
StartWatchers(args) ==
  /\ main.pc = "Start"
  /\ manager' = Start(args)
  /\ main' = [ main EXCEPT !.pc = IF manager'.err = "error" THEN "os.Exit"
                                  ELSE "WaitForCacheSync" ]
  /\ UNCHANGED << now, ticks, loc, cluster, db, worker, hist, reader, call >>

\* Variant of WaitForCacheSync in which main goes on to serve whether the
\* cache has synced or not.
WaitForCacheSyncIgnored(synced) ==
  /\ main.pc = "WaitForCacheSync"
  /\ main' = [ main EXCEPT !.pc = "serving", !.http = "listening",
                            !.synced = IF synced THEN "yes" ELSE "failed" ]
  /\ UNCHANGED << now, ticks, loc, cluster, db, worker, hist, reader, call, manager >>

\* main starts mgr.Start in a goroutine and waits for the cache: when it
\* has synced, api.NewServer and ListenAndServe follow; when it has not,
\* main calls os.Exit(1).
WaitForCacheSync(synced) ==
  /\ main.pc = "WaitForCacheSync"
  /\ main' = IF synced
             THEN [ main EXCEPT !.pc = "serving", !.http = "listening", !.synced = "yes" ]
             ELSE [ main EXCEPT !.pc = "os.Exit", !.synced = "failed" ]
  /\ UNCHANGED << now, ticks, loc, cluster, db, worker, hist, reader, call, manager >>

\* os.Exit(1): the process ends at once; deferred calls do not run.
OsExit ==
  /\ main.pc = "os.Exit"
  /\ main' = [ main EXCEPT !.pc = "exited", !.code = 1 ]
  /\ UNCHANGED << now, ticks, loc, cluster, db, worker, hist, reader, call, manager >>

\* The AddFunc of watchCRDChanges: the informer of the
\* CustomResourceDefinition type, once the cache runs, reports a
\* definition.
handleCRDAdd(crd) ==
  /\ manager.crdInformer
  /\ main.pc \in { "WaitForCacheSync", "serving", "Shutdown" }
  /\ crd \notin manager.added
  /\ manager' = [ addServedVersions(manager, crd, 1) EXCEPT !.added = @ \cup { crd } ]
  /\ UNCHANGED << now, ticks, loc, cluster, db, worker, hist, reader, main, call >>

\* ---------------------------------------------------------------- behaviour

\* The informer goroutines and a request handler, interleaved.
Next ==
  \/ \E d \in ClockSteps : Tick(d)
  \/ \E obj \in Objects : handleAdd(obj.kind, obj)
  \/ \E obj \in Objects : handleUpdate(obj.kind, obj, obj)
  \/ \E obj \in Objects : handleDelete(obj.kind, obj)
  \/ \E k \in Kinds : StoreEventUpdate(k)
  \/ \E k \in Kinds : CommitTxn(k)
  \/ \E req \in ScanRequests : handleQueryEvents(req)
  \/ \E target \in HistoryTargets : handleObjectHistory(target[1], target[2], target[3])
  \/ handleObjectHistoryRelated
  \/ Respond

Spec == Init /\ [][Next]_vars

\* The callbacks and the requests run one after the other, each to
\* completion.
NextQuery ==
  \/ \E d \in ClockSteps : reader.pc = "idle" /\ Tick(d)
  \/ \E obj \in Objects : reader.pc = "idle" /\ handleAddCall(obj)
  \/ \E obj \in Objects : reader.pc = "idle" /\ handleUpdateCall(obj, obj)
  \/ \E obj \in Objects : reader.pc = "idle" /\ handleDeleteCall(obj)
  \/ \E req \in QueryRequests(now) : handleQueryEvents(req)
  \/ \E target \in HistoryTargets : handleObjectHistory(target[1], target[2], target[3])
  \/ handleObjectHistoryRelated
  \/ Respond

\* The process runs in UTC (TZ unset, as in the container image).
InitQuery == Init /\ loc = 0

SpecQuery == InitQuery /\ [][NextQuery]_vars

\* The informers' notifications alone, each callback run to completion: an
\* update may replace the cached version of an object by another one.
NextCallbacks ==
  \/ \E d \in ClockSteps : Tick(d)
  \/ \E obj \in Objects : handleAddCall(obj)
  \/ \E oldObj \in Objects : \E newObj \in Objects : handleUpdateCall(oldObj, newObj)
  \/ \E obj \in Objects : handleDeleteCall(obj)
  \/ \E obj \in Objects : handleDeleteFinalStateUnknown(obj)

SpecCallbacks == InitQuery /\ [][NextCallbacks]_vars

\* The API server from its start to the end of the process, over a store
\* that holds the record of at most one notification: requests are accepted
\* while the listener is open, a read of the store succeeds only while the
\* store is open and may return an error at any time, and a handler that
\* is running when Shutdown gives up goes on running.
NextServe ==
  \/ \E obj \in Objects :
       hist = << >> /\ reader.pc = "idle" /\ main.pc = "serving" /\ handleAddCall(obj)
  \/ \E req \in QueryRequests(now) : main.http = "listening" /\ handleQueryEvents(req)
  \/ \E req \in QueryRequests(now) : main.http = "listening" /\ handleQueryEventsStoreError(req)
  \/ \E target \in HistoryTargets :
       main.http = "listening" /\ handleObjectHistory(target[1], target[2], target[3])
  \/ \E target \in HistoryTargets :
       main.http = "listening" /\ handleObjectHistoryStoreError(target[1], target[2], target[3])
  \/ main.store = "open" /\ handleObjectHistoryRelated
  \/ handleObjectHistoryRelatedStoreError
  \/ CancelRequest
  \/ main.http = "listening" /\ ServeHealth
  \/ handleHealth
  \/ Respond
  \/ Interrupt
  \/ ShutdownReturns
  \/ DeferredCancel
  \/ Close
  \/ Exit

SpecServe == InitQuery /\ [][NextServe]_vars

\* The process from storage.NewStore to its end: startup, the definitions
\* the CRD informer reports, health requests, and the shutdown.
InitStart ==
  /\ now = 0
  /\ ticks = 0
  /\ loc = 0
  /\ cluster = {}
  /\ db = {}
  /\ worker = [ k \in Kinds |-> Idle ]
  /\ hist = << >>
  /\ reader = NoRequest
  /\ main = AtNewStore
  /\ call = NoCall
  /\ manager = NewManager

NextStart ==
  \/ \E opened \in BOOLEAN : NewStore(opened)
  \/ \E args \in StartArgs : StartWatchers(args)
  \/ \E synced \in BOOLEAN : WaitForCacheSync(synced)
  \/ OsExit
  \/ \E crd \in { Widget, Gadget } : handleCRDAdd(crd)
  \/ main.http = "listening" /\ ServeHealth
  \/ handleHealth
  \/ Respond
  \/ Interrupt
  \/ ShutdownReturns
  \/ DeferredCancel
  \/ Close
  \/ Exit

SpecStart == InitStart /\ [][NextStart]_vars

\* The GC routine beside main, from the serving process to its end. The
\* routine is a goroutine of its own: while the process lives it is
\* scheduled whenever it can take a step; nothing is assumed of main.
NextGC ==
  \/ TickerFires
  \/ StartGCRoutineTick
  \/ \E err \in GCResults : RunGC(err)
  \/ StartGCRoutineDone
  \/ main.http = "listening" /\ ServeHealth
  \/ handleHealth
  \/ Respond
  \/ Interrupt
  \/ ShutdownReturns
  \/ DeferredCancel
  \/ Close
  \/ Exit

SpecGC ==
  /\ InitQuery
  /\ [][NextGC]_vars
  /\ WF_vars(StartGCRoutineTick)
  /\ WF_vars(\E err \in GCResults : RunGC(err))
  /\ WF_vars(StartGCRoutineDone)

\* ------------------------------------------------- the transformer alone

\* The Kinds of the table irregularPlurals.
IrregularKinds ==
  { << "E", "n", "d", "p", "o", "i", "n", "t", "s" >>,
    << "I", "n", "g", "r", "e", "s", "s" >>,
    << "N", "e", "t", "w", "o", "r", "k", "P", "o", "l", "i", "c", "y" >>,
    << "P", "o", "d", "D", "i", "s", "r", "u", "p", "t", "i", "o", "n", "B", "u", "d", "g", "e", "t" >>,
    << "P", "r", "i", "o", "r", "i", "t", "y", "C", "l", "a", "s", "s" >>,
    << "S", "t", "o", "r", "a", "g", "e", "C", "l", "a", "s", "s" >> }

\* Kinds the table does not hold, which the suffix rules pluralise: resource
\* types of the default configuration.
RuleKinds ==
  { << "P", "o", "d" >>,
    << "E", "v", "e", "n", "t" >>,
    << "S", "e", "c", "r", "e", "t" >>,
    << "S", "e", "r", "v", "i", "c", "e" >>,
    << "C", "o", "n", "f", "i", "g", "M", "a", "p" >>,
    << "N", "o", "d", "e" >>,
    << "N", "a", "m", "e", "s", "p", "a", "c", "e" >>,
    << "D", "e", "p", "l", "o", "y", "m", "e", "n", "t" >> }

\* kindToResourceType is called with a Kind.
CallKindToResourceType(kind) ==
  /\ call = NoCall
  /\ call' = [ op |-> "kindToResourceType", args |-> << kind >>,
               out |-> kindToResourceType(kind) ]
  /\ UNCHANGED << now, ticks, loc, cluster, db, worker, hist, reader, main, manager >>

\* resourceTypeToKind is called with the resource type that
\* kindToResourceType returned; args keeps the Kind it was derived from.
CallResourceTypeToKind ==
  /\ call.op = "kindToResourceType"
  /\ call' = [ op |-> "resourceTypeToKind", args |-> << call.out, call.args[1] >>,
               out |-> resourceTypeToKind(call.out) ]
  /\ UNCHANGED << now, ticks, loc, cluster, db, worker, hist, reader, main, manager >>

\* A nil *unstructured.Unstructured.
Nil == [ nil |-> TRUE ]

\* Notification kinds other than ADDED, MODIFIED and DELETED.
OtherEventTypes == { "BOOKMARK", "ERROR", "" }

\* The addresses of the informer cache's copy of the object and of the map
\* cleanObject returns.
Cache == << "cache" >>
Cleaned == << "cleaned" >>

\* The shapes of the metadata of an object: a map, a scalar, or absent.
MetadataShapes == { "map", "scalar", "absent" }

\* The informer cache's copy of obj: kind, a metadata of the given shape
\* with name, namespace, labels and the given fields of StrippedFields, and
\* a spec that has fields of the same names as the stripped ones.
CachedObject(obj, shape, fields) ==
  LET metadata ==
        [ k \in { "name", "namespace", "labels" } \cup fields |->
            CASE k = "name" -> Scalar(obj.name)
              [] k = "namespace" -> Scalar(obj.namespace)
              [] k = "labels" -> Ref(Cache \o << "metadata", "labels" >>)
              [] k = "managedFields" -> Ref(Cache \o << "metadata", "managedFields" >>)
              [] k = "uid" -> Scalar(obj.uid)
              [] OTHER -> Scalar(<< "1" >>) ]
      nested ==
        (Cache \o << "metadata", "labels" >> :> [ app |-> Scalar(<< "a" >>), uid |-> Scalar(<< "l" >>) ])
        @@ (IF "managedFields" \in fields
            THEN Cache \o << "metadata", "managedFields" >> :> [ manager |-> Scalar(<< "m" >>) ]
            ELSE << >>)
      spec == [ uid |-> Scalar(<< "s" >>), generation |-> Scalar(<< "2" >>),
                selector |-> Ref(Cache \o << "spec", "selector" >>) ]
      selector == [ selfLink |-> Scalar(<< "x" >>) ]
      rest == (Cache \o << "spec" >> :> spec) @@ (Cache \o << "spec", "selector" >> :> selector)
  IN  CASE shape = "map" ->
             (Cache :> [ kind |-> Scalar(obj.kind), metadata |-> Ref(Cache \o << "metadata" >>),
                         spec |-> Ref(Cache \o << "spec" >>) ])
             @@ (Cache \o << "metadata" >> :> metadata) @@ nested @@ rest
        [] shape = "scalar" ->
             (Cache :> [ kind |-> Scalar(obj.kind), metadata |-> Scalar(<< "1" >>),
                         spec |-> Ref(Cache \o << "spec" >>) ]) @@ rest
        [] OTHER ->
             (Cache :> [ kind |-> Scalar(obj.kind), spec |-> Ref(Cache \o << "spec" >>) ]) @@ rest

\* TransformWatchEvent is called with a nil object: it returns an error.
CallTransformWatchEventNil(eventType) ==
  /\ call = NoCall
  /\ call' = [ op |-> "TransformWatchEvent", args |-> << Nil, eventType >>,
               out |-> [ err |-> TRUE ] ]
  /\ UNCHANGED << now, ticks, loc, cluster, db, worker, hist, reader, main, manager >>

\* TransformWatchEvent is called with the informer cache's copy of an
\* object: out holds the event, the address of its ObjectChanges, and the
\* memory before and after the call.
CallTransformWatchEvent(obj, shape, fields, eventType) ==
  /\ call = NoCall
  /\ shape # "map" => fields = {}
  /\ call' = [ op |-> "TransformWatchEvent", args |-> << obj, eventType >>,
               out |-> [ err |-> FALSE,
                         event |-> TransformWatchEvent(obj, eventType, now, loc),
                         objectChanges |-> Cleaned,
                         before |-> CachedObject(obj, shape, fields),
                         after |-> cleanObject(CachedObject(obj, shape, fields), Cache, Cleaned) ] ]
  /\ UNCHANGED << now, ticks, loc, cluster, db, worker, hist, reader, main, manager >>

\* The caller has used the result.
CallReturns ==
  /\ call # NoCall
  /\ call' = NoCall
  /\ UNCHANGED << now, ticks, loc, cluster, db, worker, hist, reader, main, manager >>

\* The functions of the transformer, called on their own, one call at a
\* time.
NextTransform ==
  \/ \E kind \in IrregularKinds \cup RuleKinds : CallKindToResourceType(kind)
  \/ CallResourceTypeToKind
  \/ \E eventType \in EventTypes \cup OtherEventTypes : CallTransformWatchEventNil(eventType)
  \/ \E obj \in Objects, shape \in MetadataShapes, fields \in SUBSET StrippedFields,
        eventType \in EventTypes \cup OtherEventTypes :
          CallTransformWatchEvent(obj, shape, fields, eventType)
  \/ CallReturns

SpecTransform == Init /\ [][NextTransform]_vars

\* ------------------------------------------------------- the configuration

\* config.DefaultConfig, without the list of resources.
DefaultConfig ==
  [ discoverCRDs |-> TRUE, storagePath |-> "/data/watch-events",
    retentionDays |-> 14, serverPort |-> 8000, maxQueryLimit |-> 1000 ]

\* config.LoadConfig of a file that parses: yaml.Unmarshal leaves the zero
\* value in a field the file omits, and four of the fields get a default.
LoadConfig(file) ==
  [ discoverCRDs |-> file.discoverCRDs,
    storagePath |-> IF file.storagePath = "" THEN "/data/watch-events" ELSE file.storagePath,
    retentionDays |-> IF file.retentionDays = 0 THEN 14 ELSE file.retentionDays,
    serverPort |-> IF file.serverPort = 0 THEN 8080 ELSE file.serverPort,
    maxQueryLimit |-> IF file.maxQueryLimit = 0 THEN 1000 ELSE file.maxQueryLimit ]

\* main's loadConfig: the file at CONFIG_PATH when os.Stat finds it,
\* otherwise the defaults with BADGER_PATH and SERVER_PORT applied.
\* serverPort is the variable SERVER_PORT: unset, an integer, or another
\* text, for which fmt.Sscanf with %d returns an error.
loadConfig(exists, file, badgerPath, serverPort) ==
  IF exists THEN LoadConfig(file)
  ELSE LET cfg == DefaultConfig
           withPath == IF badgerPath # "" THEN [ cfg EXCEPT !.storagePath = badgerPath ] ELSE cfg
       IN  IF serverPort.str = "int" THEN [ withPath EXCEPT !.serverPort = serverPort.n ]
           ELSE withPath

\* The configuration files: each field given or omitted.
ConfigFiles ==
  [ discoverCRDs : BOOLEAN, storagePath : { "", "/file" }, retentionDays : { 0, 7 },
    serverPort : { 0, 7000 }, maxQueryLimit : { 0, 50 } ]

\* loadConfig is called in an environment.
CallLoadConfig(exists, file, badgerPath, serverPort) ==
  /\ call = NoCall
  /\ call' = [ op |-> "loadConfig", args |-> << exists, file, badgerPath, serverPort >>,
               out |-> loadConfig(exists, file, badgerPath, serverPort) ]
  /\ UNCHANGED << now, ticks, loc, cluster, db, worker, hist, reader, main, manager >>

\* The process is started with or without a configuration file, and with
\* or without BADGER_PATH and SERVER_PORT.
NextConfig ==
  \/ \E exists \in BOOLEAN, file \in ConfigFiles, badgerPath \in { "", "/env" },
        serverPort \in { [ str |-> "unset", n |-> 0 ], [ str |-> "int", n |-> 9090 ],
                         [ str |-> "text", n |-> 0 ] } :
          CallLoadConfig(exists, file, badgerPath, serverPort)
  \/ CallReturns

SpecConfig == InitQuery /\ [][NextConfig]_vars

\* ------------------------------------------------------------ properties

Events == << "e", "v", "e", "n", "t", "s" >>
ObjectsIndex == << "o", "b", "j", "e", "c", "t", "s" >>
EventRefs == << "e", "v", "e", "n", "t", "R", "e", "f", "s" >>

\* The keys of a set of entries.
Keys(entries) == { e.key : e \in entries }

\* An entry with its key taken apart: the index it belongs to, the
\* <<namespace, resourceType or kind, name>> of the key, its
\* <<timestamp, uid>>, and the value and expiration. A key that does not
\* have six segments belongs to no index.
Row(e) ==
  LET p == SplitSlash(e.key)
  IN  IF Len(p) # 6
      THEN [ index |-> << >>, object |-> p, stamp |-> << >>,
             value |-> e.value, expiresAt |-> e.expiresAt ]
      ELSE IF p[1] = Events
      THEN [ index |-> p[1], object |-> << p[3], p[4], p[5] >>,
             stamp |-> << p[2], p[6] >>,
             value |-> e.value, expiresAt |-> e.expiresAt ]
      ELSE [ index |-> p[1], object |-> << p[2], p[3], p[4] >>,
             stamp |-> << p[5], p[6] >>,
             value |-> e.value, expiresAt |-> e.expiresAt ]

Rows(entries) == { Row(e) : e \in entries }

\* The keys the h-th callback writes.
CallKeys(h) ==
  LET writes == IndexWrites(hist[h].event, hist[h].obj, << >>, 0)
  IN  { writes[n].key : n \in 1..Len(writes) }

\* A set of keys holds all keys of each call or none of them.
AllOrNone(keys) ==
  \A h \in 1..Len(hist) :
    LET mine == CallKeys(h)
    IN  mine \cap keys = {} \/ mine \subseteq keys

\* C1: the index entries of one StoreEvent call become visible together:
\* whatever the interleaving of callbacks, clock and requests, the store as
\* any read transaction sees it, and the snapshot each QueryEvents,
\* GetObjectHistory and GetRelatedEvents scan has read, holds either all of
\* the keys of a call or none of them.
C1_IndexEntriesVisibleTogether ==
  /\ AllOrNone(Keys(View(db, now)))
  /\ reader.pc # "idle" => AllOrNone(Keys(reader.view))

\* A scan has read all three entries of an Event record while another
\* callback stands between its SetEntry calls and its commit, with none of
\* its writes in the snapshot.
C1_Witness ==
  /\ reader.pc # "idle"
  /\ \E h \in 1..Len(hist) :
       /\ hist[h].status = "stored"
       /\ Cardinality(CallKeys(h)) = 3
       /\ CallKeys(h) \subseteq Keys(reader.view)
  /\ \E k \in Kinds :
       /\ worker[k].pc = "commit"
       /\ Keys(worker[k].pending) # {}
       /\ Keys(worker[k].pending) \cap Keys(reader.view) = {}

\* C2: a StoreEvent call that fails, at json.Marshal, at any SetEntry or at
\* the commit, returns its error and leaves the content of the store as it
\* was before the call.
C2_FailedCallLeavesStoreUnchanged ==
  [][ \A k \in Kinds :
        ( /\ worker[k].pc # "idle"
          /\ worker'[k].pc = "idle"
          /\ hist'[worker[k].h].status = "failed" )
        => db' = db ]_vars

\* A call failed after an earlier call had stored its record, and the store
\* holds the earlier record and nothing else.
C2_Witness ==
  \E h \in 1..Len(hist) : \E g \in 1..Len(hist) :
    /\ hist[h].status = "failed"
    /\ hist[g].status = "stored"
    /\ CallKeys(h) \cap CallKeys(g) = {}
    /\ Keys(db) = CallKeys(g)

\* C3: in every state of the store the entries of one event agree: each
\* time-index entry has an object-index entry with the same namespace,
\* resourceType, resourceName, timestamp and uid, the same value and the
\* same expiration, and the other way round; each cross-reference entry has
\* a time-index entry with the same timestamp and uid, the same value and the
\* same expiration.
C3_IndexEntriesAgree ==
  LET rows == Rows(db)
  IN  \A r \in rows :
        /\ r.index \in { Events, ObjectsIndex, EventRefs }
        /\ r.index = Events => [ r EXCEPT !.index = ObjectsIndex ] \in rows
        /\ r.index = ObjectsIndex => [ r EXCEPT !.index = Events ] \in rows
        /\ r.index = EventRefs =>
             \E t \in rows : /\ t.index = Events
                             /\ t.stamp = r.stamp
                             /\ t.value = r.value
                             /\ t.expiresAt = r.expiresAt

\* The store holds the three entries of an Event record next to the two
\* entries of a record of another object.
C3_Witness ==
  \E r \in Rows(db) : \E o \in Rows(db) :
    /\ r.index = EventRefs
    /\ o.index = ObjectsIndex
    /\ o.stamp[2] # r.stamp[2]

\* The object is an Event whose involvedObject has a kind and a name.
ValidInvolvedObject(obj) ==
  /\ obj.kind = << "E", "v", "e", "n", "t" >>
  /\ obj.involved.found
  /\ obj.involved.kind # << >>
  /\ obj.involved.name # << >>

\* The keys a call for obj is to write, the event being the transformed
\* notification.
ExpectedReference(event, obj) ==
  JoinSlash(<< EventRefs, obj.involved.namespace, obj.involved.kind,
               obj.involved.name, FormatRFC3339(event.timestamp), obj.uid >>)
ExpectedKeys(event, obj) ==
  { timeKey(event, obj.uid), objectKey(event, obj.uid) }
  \cup (IF ValidInvolvedObject(obj) THEN { ExpectedReference(event, obj) } ELSE {})

\* The cross-reference keys among keys that carry the timestamp and uid of
\* the h-th callback.
ReferencesOf(h, keys) ==
  LET tail == << "/" >> \o FormatRFC3339(hist[h].event.timestamp)
              \o << "/" >> \o hist[h].obj.uid
  IN  { k \in keys : HasPrefix(k, EventRefs \o << "/" >>) /\ HasSuffix(k, tail) }

\* C4: StoreEvent writes the cross-reference entry
\* eventRefs/{refNamespace}/{refKind}/{refName}/{timestamp}/{uid} if and
\* only if the object is an Event whose involvedObject has a non-empty kind
\* and a non-empty name; otherwise it writes the time and object entries
\* only.
C4_ReferenceIffValidInvolvedObject ==
  /\ \A k \in Kinds :
       worker[k].pc = "commit" =>
         Keys(worker[k].pending)
           = ExpectedKeys(hist[worker[k].h].event, hist[worker[k].h].obj)
  /\ LET keys == Keys(db)
     IN  \A h \in 1..Len(hist) :
           hist[h].status = "stored" =>
             /\ ExpectedKeys(hist[h].event, hist[h].obj) \subseteq keys
             /\ ReferencesOf(h, keys) =
                  ExpectedKeys(hist[h].event, hist[h].obj)
                  \ { timeKey(hist[h].event, hist[h].obj.uid),
                      objectKey(hist[h].event, hist[h].obj.uid) }

\* Two Event objects were stored, one about a pod and one whose
\* involvedObject has no name: the store holds the cross-reference entry of
\* the first and none of the second.
C4_Witness ==
  \E h \in 1..Len(hist) : \E g \in 1..Len(hist) :
    /\ hist[h].status = "stored" /\ hist[g].status = "stored"
    /\ ValidInvolvedObject(hist[h].obj)
    /\ ReferencesOf(h, Keys(db)) # {}
    /\ hist[g].obj.involved.found
    /\ ~ValidInvolvedObject(hist[g].obj)
    /\ ReferencesOf(g, Keys(db)) = {}

\* <<namespace, resourceType, resourceName>> of a record.
TripleOf(event) == << event.namespace, event.resourceType, event.resourceName >>

\* The callbacks that stored a record for a triple.
StoredCalls(triple) ==
  { h \in 1..Len(hist) : hist[h].status = "stored" /\ TripleOf(hist[h].event) = triple }

\* C5: a record a successful StoreEvent created is not overwritten by a
\* later StoreEvent: as long as no entry has expired, GetObjectHistory for a
\* triple returns as many records as there were successful StoreEvent calls
\* for that triple.
C5_EveryCallKeepsItsRecord ==
  ( /\ reader.op = "history"
    /\ reader.pc = "related"
    /\ \A e \in db : ~Expired(e, now) )
  => Len(reader.events) = Cardinality(StoredCalls(reader.args))

\* C6: the records QueryEvents returns have non-decreasing timestamp fields
\* in result order, and every one of them lies in the inclusive range
\* [start, end] of the request.
C6_QueryOrderedAndInRange ==
  ( /\ reader.op = "query"
    /\ reader.pc = "done"
    /\ reader.status = 200 )
  => /\ \A j \in 1..Len(reader.events) : \A k \in 1..Len(reader.events) :
          j < k => ~After(reader.events[j].timestamp, reader.events[k].timestamp)
     /\ \A j \in 1..Len(reader.events) :
          /\ reader.args.start.str = "valid" =>
               ~Before(reader.events[j].timestamp, reader.args.start.tm)
          /\ reader.args.end.str = "valid" =>
               ~After(reader.events[j].timestamp, reader.args.end.tm)

\* The record matches the range and the filters of a request.
Matches(event, req) ==
  /\ req.start.str = "valid" => ~Before(event.timestamp, req.start.tm)
  /\ req.end.str = "valid" => ~After(event.timestamp, req.end.tm)
  /\ req.namespace # << >> => event.namespace = req.namespace
  /\ req.resourceType # << >> => event.resourceType = req.resourceType
  /\ req.resourceName # << >> => event.resourceName = req.resourceName
  /\ req.verb # "" => event.verb = req.verb
  /\ req.user # "" => event.user = req.user

\* C7: QueryEvents skips no matching record: when it returns fewer records
\* than the limit, every unexpired record of the time index whose timestamp
\* lies in [start, end] and that passes the filters is among them.
C7_QueryReturnsEveryMatch ==
  ( /\ reader.op = "query"
    /\ reader.pc = "done"
    /\ reader.status # 400
    /\ Len(reader.events) < reader.limit )
  => \A e \in db :
       ( /\ HasPrefix(e.key, Events \o << "/" >>)
         /\ e.expiresAt > Unix(now)
         /\ Matches(Unmarshal(e.value), reader.args) )
       => \E j \in 1..Len(reader.events) : reader.events[j] = Unmarshal(e.value)

\* The unexpired rows of the object index under a triple.
ObjectRows(triple) ==
  { r \in Rows({ e \in db : e.expiresAt > Unix(now) }) :
      r.index = ObjectsIndex /\ r.object = triple }

\* C8: GetObjectHistory returns exactly the unexpired records stored under
\* the object index for its (namespace, resourceType, name): as many
\* records as there are such entries, each entry's record among them, and no
\* record of another triple or of an expired entry.
C8_HistoryIsObjectIndexOfTriple ==
  ( /\ reader.op = "history"
    /\ reader.pc = "related" )
  => LET stored == ObjectRows(reader.args)
     IN  /\ Len(reader.events) = Cardinality(stored)
         /\ \A r \in stored :
              \E j \in 1..Len(reader.events) : reader.events[j] = Unmarshal(r.value)
         /\ \A j \in 1..Len(reader.events) :
              /\ TripleOf(reader.events[j]) = reader.args
              /\ \E r \in stored : reader.events[j] = Unmarshal(r.value)

\* GetObjectHistory has returned a record of its triple while the store also
\* holds an expired object-index entry of that triple and an unexpired one of
\* another triple.
C8_Witness ==
  /\ reader.op = "history"
  /\ reader.pc = "related"
  /\ Len(reader.events) >= 1
  /\ \E r \in Rows({ e \in db : Expired(e, now) }) :
       r.index = ObjectsIndex /\ r.object = reader.args
  /\ \E r \in Rows({ e \in db : ~Expired(e, now) }) :
       r.index = ObjectsIndex /\ r.object # reader.args

\* The records of the notifications received for a triple, in the order of
\* reception.
Received(triple) ==
  LET calls == SelectSeq(hist, LAMBDA r : TripleOf(r.event) = triple)
  IN  [ n \in 1..Len(calls) |-> calls[n].event ]

RECURSIVE SubsequenceFrom(_, _, _, _)
\* a from position i on is a subsequence of b from position j on.
SubsequenceFrom(a, i, b, j) ==
  IF i > Len(a) THEN TRUE
  ELSE IF j > Len(b) THEN FALSE
  ELSE IF a[i] = b[j] THEN SubsequenceFrom(a, i + 1, b, j + 1)
  ELSE SubsequenceFrom(a, i, b, j + 1)

\* C9: for one object (namespace/resourceType/name) GetObjectHistory
\* returns the records in the order in which the callbacks received the
\* notifications, with non-decreasing timestamps.
C9_HistoryInReceptionOrder ==
  ( /\ reader.op = "history"
    /\ reader.pc = "related" )
  => /\ SubsequenceFrom(reader.events, 1, Received(reader.args), 1)
     /\ \A j \in 1..Len(reader.events) : \A k \in 1..Len(reader.events) :
          j < k => ~After(reader.events[j].timestamp, reader.events[k].timestamp)

\* C10: for every stored record of an Event object whose involvedObject is
\* (kind K, namespace ns, name n), the history operation for
\* (ns, kindToResourceType(K), n) returns the record in relatedEvents.
C10_RelatedEventsReturned ==
  ( /\ reader.op = "history"
    /\ reader.pc = "done" )
  => \A h \in 1..Len(hist) :
       LET obj == hist[h].obj
       IN  ( /\ hist[h].status = "stored"
             /\ ValidInvolvedObject(obj)
             /\ reader.args = << obj.involved.namespace,
                                 kindToResourceType(obj.involved.kind),
                                 obj.involved.name >>
             /\ \E e \in db : /\ e.key = ExpectedReference(hist[h].event, obj)
                              /\ e.value = Marshal(hist[h].event)
                              /\ e.expiresAt > Unix(now) )
           => \E j \in 1..Len(reader.related) : reader.related[j] = hist[h].event

\* C11: for every Kind of the irregular table and every Kind the
\* pluralisation rules handle, turning the Kind into its resource type and
\* the resource type back into a Kind gives the Kind again.
C11_PluralRoundTrip ==
  call.op = "resourceTypeToKind" => call.out = call.args[2]

\* The query has been answered from the store (its parameters parsed).
QueryAnswered ==
  /\ reader.op = "query"
  /\ reader.pc = "done"
  /\ reader.status \in { 200, 404 }

\* The unexpired records of the time index that the request's range and
\* filters match, in the view the request read.
MatchingRows(view, req) ==
  { row \in Rows(view) : row.index = Events /\ Matches(Unmarshal(row.value), req) }

\* C12: a query never returns more than maxQueryLimit records, whatever
\* its limit parameter; and when the limit parameter exceeds maxQueryLimit,
\* maxQueryLimit records are returned and more matching records remain,
\* X-Has-More is true.
C12_LimitCappedAtMaximum ==
  QueryAnswered =>
    /\ Len(reader.events) <= MaxQueryLimit
    /\ ( /\ reader.args.limit.str = "int"
         /\ reader.args.limit.n > MaxQueryLimit
         /\ Len(reader.events) = MaxQueryLimit
         /\ Cardinality(MatchingRows(reader.view, reader.args)) > Len(reader.events) )
       => (reader.status = 200 /\ reader.hasMore)

\* A limit above the maximum was asked for, three records match, and the
\* response holds maxQueryLimit of them with X-Has-More true.
C12_Witness ==
  /\ QueryAnswered
  /\ reader.args.limit.str = "int"
  /\ reader.args.limit.n > MaxQueryLimit
  /\ Len(reader.events) = MaxQueryLimit
  /\ Cardinality(MatchingRows(reader.view, reader.args)) > MaxQueryLimit
  /\ reader.hasMore

\* The limit a request asks for, clamped to the maximum; the maximum when
\* the request names none.
ClampedLimit(limit) ==
  IF limit.str = "absent" \/ limit.n > MaxQueryLimit THEN MaxQueryLimit ELSE limit.n

\* C13: in a 200 answer of a query whose limit parameter is absent or
\* positive, X-Total-Count is the number of records returned, and
\* X-Has-More is true exactly when that number equals the effective limit:
\* the requested limit clamped to maxQueryLimit, or maxQueryLimit when no
\* limit was given.
C13_PaginationHeaders ==
  ( /\ QueryAnswered
    /\ reader.status = 200
    /\ (reader.args.limit.str = "absent" \/ reader.args.limit.n > 0) )
  => /\ Len(reader.events) > 0
     /\ reader.total = Len(reader.events)
     /\ reader.hasMore <=> (Len(reader.events) = ClampedLimit(reader.args.limit))

\* A query with limit 1 below the maximum returned one record of two and
\* says there is more.
C13_Witness ==
  /\ QueryAnswered
  /\ reader.status = 200
  /\ reader.args.limit = LimitParam(1)
  /\ 1 < MaxQueryLimit
  /\ reader.total = 1
  /\ reader.hasMore
  /\ Cardinality(MatchingRows(reader.view, reader.args)) > 1

C15_HistoryNotFoundIffBothEmpty ==
  ( /\ reader.op = "history"
    /\ reader.pc = "done"
    /\ reader.status # 500 )
  => /\ reader.status \in { 200, 404 }
     /\ reader.status = 404 <=> (Len(reader.events) = 0 /\ Len(reader.related) = 0)
     /\ Len(reader.events) = Cardinality(ObjectRows(reader.args))
     /\ reader.related = GetRelatedEvents(reader.view, reader.args[1],
                            resourceTypeToKind(reader.args[2]), reader.args[3])

\* A history was answered 200 with no watch event and one related event.
C15_Witness ==
  /\ reader.op = "history"
  /\ reader.pc = "done"
  /\ reader.status = 200
  /\ Len(reader.events) = 0
  /\ Len(reader.related) > 0

\* C16: a query whose start or end is not a valid RFC-3339 time, or whose
\* limit is not an integer, is answered 400 without a read of the store;
\* and a query or a history during which the store returns an error is
\* answered 500.
C16_InvalidInputAndStoreError ==
  reader.pc = "done" =>
    /\ (reader.op = "query" /\ ( \/ reader.args.start.str = "malformed"
                                \/ reader.args.end.str = "malformed"
                                \/ reader.args.limit.str = "malformed" ))
         => (reader.status = 400 /\ reader.reads = 0 /\ reader.view = {})
    /\ (reader.op \in { "query", "history" } /\ reader.err) => reader.status = 500

\* A query with a malformed limit was answered 400 while the store holds
\* a record.
C16_Witness ==
  /\ reader.pc = "done"
  /\ reader.op = "query"
  /\ reader.args.limit.str = "malformed"
  /\ reader.status = 400
  /\ db # {}

\* GetRelatedEvents returned an error after GetObjectHistory had returned a
\* record, and the history was answered 500.
C16_WitnessStoreError ==
  /\ reader.pc = "done"
  /\ reader.op = "history"
  /\ reader.err
  /\ reader.status = 500
  /\ Len(reader.events) > 0

\* C17: the health operation returns successfully if and only if the
\* store is open: whenever handleHealth answers, its answer is 200 exactly
\* when the store is open.
C17_HealthyIffStoreOpen ==
  [][ ( /\ reader.op = "health"
        /\ reader.pc = "routed"
        /\ reader'.pc = "done" )
      => (reader'.status = 200 <=> main.store = "open") ]_vars

\* The retention period and the slack of one second, in ticks.
Retention == RetentionDays * 24 * 3600 * TicksPerSec
Slack == TicksPerSec

\* The records of the response being written.
Returned ==
  { reader.events[j] : j \in 1..Len(reader.events) }
  \cup { reader.related[j] : j \in 1..Len(reader.related) }

\* C18: every entry StoreEvent wrote expires at the second of (time of the
\* write + retentionDays * 24h), the write being at the record's timestamp;
\* and no read returns a record once retentionDays and a second have
\* passed since the record was stored.
C18_EntriesExpireAfterRetention ==
  /\ \A e \in db :
       e.expiresAt = (Field(e.value, "timestamp", ZeroTime).t + Retention) \div TicksPerSec
  /\ reader.pc \in { "related", "done" } =>
       \A event \in Returned : now < event.timestamp.t + Retention + Slack

\* A read is being answered while the store still holds an entry whose
\* retention has passed, next to one whose retention has not.
C18_Witness ==
  /\ reader.pc = "done"
  /\ reader.status = 200
  /\ \E e \in db :
       /\ Expired(e, now)
       /\ now >= Field(e.value, "timestamp", ZeroTime).t + Retention
       /\ Unmarshal(e.value) \notin Returned
  /\ \E e \in db : Unmarshal(e.value) \in Returned

\* C19: TransformWatchEvent gives the verb create for ADDED, update for
\* MODIFIED and delete for DELETED; for any other notification kind and a
\* non-nil object it returns no error and an event with the verb unknown.
C19_VerbOfNotificationKind ==
  ( /\ call.op = "TransformWatchEvent"
    /\ call.args[1] # Nil )
  => /\ ~call.out.err
     /\ call.args[2] = "ADDED" => call.out.event.verb = "create"
     /\ call.args[2] = "MODIFIED" => call.out.event.verb = "update"
     /\ call.args[2] = "DELETED" => call.out.event.verb = "delete"
     /\ call.args[2] \notin { "ADDED", "MODIFIED", "DELETED" }
          => call.out.event.verb = "unknown"

\* TransformWatchEvent was called with the notification kind BOOKMARK and
\* an object, and returned an event.
C19_Witness ==
  /\ call.op = "TransformWatchEvent"
  /\ call.args[1] \in Objects
  /\ call.args[2] = "BOOKMARK"
  /\ ~call.out.err
  /\ call.out.event.verb = "unknown"

RECURSIVE Flatten(_, _, _)
\* The fields of the object at addr, each as <<path, value>>; the value of
\* a field that is a map is the empty tuple, and its fields follow.
Flatten(mem, addr, path) ==
  UNION { IF mem[addr][k].map
          THEN { << Append(path, k), << >> >> }
               \cup Flatten(mem, mem[addr][k].v, Append(path, k))
          ELSE { << Append(path, k), << mem[addr][k].v >> >> } :
          k \in DOMAIN mem[addr] }

\* The field at path is one of the five of metadata, or lies below one.
Stripped(path) ==
  /\ Len(path) >= 2
  /\ path[1] = "metadata"
  /\ path[2] \in { "managedFields", "resourceVersion", "generation", "selfLink", "uid" }

\* C20: the objectChanges of the event TransformWatchEvent produces has
\* none of metadata.managedFields, metadata.resourceVersion,
\* metadata.generation, metadata.selfLink and metadata.uid, has every other
\* field of the input with its value, and the input object, the informer
\* cache's copy, is the same after the call as before.
C20_ObjectChangesStripped ==
  ( /\ call.op = "TransformWatchEvent"
    /\ ~call.out.err )
  => LET input == Flatten(call.out.before, Cache, << >>)
         output == Flatten(call.out.after, call.out.objectChanges, << >>)
     IN  /\ \A f \in output : ~Stripped(f[1])
         /\ output = { f \in input : ~Stripped(f[1]) }
         /\ \A addr \in DOMAIN call.out.before :
              call.out.after[addr] = call.out.before[addr]

\* The input has all five fields in its metadata, and fields of the same
\* names in its spec and its labels, which the objectChanges keeps.
C20_Witness ==
  /\ call.op = "TransformWatchEvent"
  /\ ~call.out.err
  /\ Cache \o << "metadata" >> \in DOMAIN call.out.before
  /\ \A k \in { "managedFields", "resourceVersion", "generation", "selfLink", "uid" } :
       k \in DOMAIN call.out.before[Cache \o << "metadata" >>]
  /\ << << "spec", "uid" >>, << << "s" >> >> >>
       \in Flatten(call.out.after, call.out.objectChanges, << >>)
  /\ << << "metadata", "labels", "uid" >>, << << "l" >> >> >>
       \in Flatten(call.out.after, call.out.objectChanges, << >>)

\* C30: BADGER_PATH, when set, is the storagePath of the configuration, and
\* SERVER_PORT, when set to an integer, is its serverPort, whether the
\* configuration comes from a file or from the defaults.
C30_EnvironmentOverrides ==
  call.op = "loadConfig" =>
    /\ call.args[3] # "" => call.out.storagePath = call.args[3]
    /\ call.args[4].str = "int" => call.out.serverPort = call.args[4].n

\* C28: the reads of the store honour their cancellation signal: a read
\* whose context is cancelled stops at the next key boundary and returns
\* the records accumulated so far with the cancellation reason. For
\* GetRelatedEvents called with a context already cancelled: it returns no
\* record and an error.
C28_ReadsHonourCancellation ==
  ( /\ reader.op = "history"
    /\ reader.pc = "done"
    /\ reader.ctx = "cancelled" )
  => /\ reader.err
     /\ Len(reader.related) = 0

Started == manager.err # "none"

\* addWatcher fails for a descriptor of the static configuration.
StaticFailure ==
  \E i \in 1..Len(manager.args.resources) : manager.args.resources[i] \in manager.args.failing

\* C21: if registering the watcher of a configured (static) resource
\* descriptor fails, Start returns an error, main aborts the startup and
\* the process exits with a non-zero code: the listener is never opened and
\* no request is ever served.
C21_StaticFailureAbortsStartup ==
  ( Started /\ StaticFailure )
  => /\ manager.err = "error"
     /\ main.pc \in { "os.Exit", "exited" }
     /\ main.pc = "exited" => main.code # 0
     /\ main.http = "closed"
     /\ reader = NoRequest

\* The watcher of the second configured descriptor could not be
\* registered, after the first one was: the process has exited with code 1.
C21_Witness ==
  /\ Started
  /\ StaticFailure
  /\ Len(manager.attempted) = 2
  /\ Len(manager.handlers) = 1
  /\ main.pc = "exited"
  /\ main.code = 1

\* The served versions of a definition, as resource types.
ServedVersions(crd) ==
  { ResourceWatch(crd.group, crd.versions[j].name, crd.kind) :
      j \in { n \in 1..Len(crd.versions) : crd.versions[n].served } }

\* The elements of a sequence.
Range(seq) == { seq[n] : n \in 1..Len(seq) }

\* The definitions c.List returned that the static configuration does not
\* name by group and kind.
Discoverable ==
  { crd \in Range(manager.args.crds) :
      \A r \in Range(manager.args.resources) : << r.group, r.kind >> # << crd.group, crd.kind >> }

\* C22: a failure to register the watcher of a custom type or version, in
\* the initial discovery or on a later Add of a definition, and a failure
\* to list the definitions, never make Start return an error (only a
\* static descriptor does), and the remaining types and versions are
\* attempted all the same.
C22_CustomFailuresAreSkipped ==
  Started
  => /\ manager.err = "error" <=> StaticFailure
     /\ ( manager.err = "nil" /\ manager.args.discoverCRDs /\ ~manager.args.listErr )
        => \A crd \in Discoverable : ServedVersions(crd) \subseteq Range(manager.attempted)
     /\ \A crd \in manager.added : ServedVersions(crd) \subseteq Range(manager.attempted)

\* In the initial discovery the watcher of Widget v1 and that of Gadget v1
\* failed, the one of Gadget v1beta1 was registered, and Start returned nil.
C22_Witness ==
  /\ manager.err = "nil"
  /\ manager.added = {}
  /\ { ResourceWatch("example.com", "v1", "Widget"), ResourceWatch("example.com", "v1", "Gadget") }
       \subseteq Range(manager.attempted) \ Range(manager.handlers)
  /\ ResourceWatch("example.com", "v1beta1", "Gadget") \in Range(manager.handlers)

\* The handlers registered after those of the static configuration.
Discovered == SubSeq(manager.handlers, Len(manager.args.resources) + 1, Len(manager.handlers))

\* C23: with discovery enabled and the definitions listed, the initial
\* discovery registers one watcher for each served version of each listed
\* definition whose registration does not fail, none for a version that is
\* not served, and none for a definition whose (group, kind) is in the
\* static configuration.
C23_InitialDiscovery ==
  ( /\ manager.err = "nil"
    /\ manager.args.discoverCRDs
    /\ ~manager.args.listErr
    /\ manager.added = {} )
  => /\ Range(Discovered) = UNION { ServedVersions(crd) : crd \in Discoverable } \ manager.args.failing
     /\ Len(Discovered) = Cardinality(Range(Discovered))

\* Widget is configured statically and listed with Gadget: the discovery
\* registered the two versions of Gadget and nothing of Widget.
C23_Witness ==
  /\ manager.err = "nil"
  /\ manager.args.discoverCRDs
  /\ manager.added = {}
  /\ manager.args.crds = << Widget, Gadget >>
  /\ ResourceWatch("example.com", "v1", "Widget") \in Range(manager.args.resources)
  /\ Discovered = << ResourceWatch("example.com", "v1", "Gadget"),
                     ResourceWatch("example.com", "v1beta1", "Gadget") >>

\* C24: with discovery enabled, every Start that returns nil has registered
\* a handler with the informer of the CustomResourceDefinition type, the
\* informer being available.
C24_StartWatchesDefinitions ==
  ( /\ manager.err = "nil"
    /\ manager.args.discoverCRDs
    /\ ~manager.args.informerErr )
  => manager.crdInformer

\* The steps of the shutdown so far are in order: the listener is closed
\* before the context of the watchers and of the GC routine is cancelled,
\* the context is cancelled before the store is closed, and the store is
\* closed before main returns.
ShutdownInOrder ==
  /\ main.pc = "Shutdown" => ( main.http = "closed" /\ main.ctx = "live" /\ main.store = "open" )
  /\ main.ctx = "cancelled" => ( main.http = "closed" /\ main.pc \in { "cancel", "Close", "exit", "exited" } )
  /\ main.store = "closed" => ( main.ctx = "cancelled" /\ main.pc \in { "exit", "exited" } )
  /\ ( main.pc = "exited" /\ main.code = 0 ) => main.store = "closed"

\* C27: on interrupt main first has the HTTP server stop accepting and
\* drain (Shutdown, at most 30 s), then cancels the context that stops the
\* watchers and the GC routine, then closes the store, then returns; the
\* second run of cancel, the deferred one, changes nothing.
C27_ShutdownOrder ==
  /\ []ShutdownInOrder
  /\ [][ ( main.pc = "cancel" /\ main' # main )
         => main' = [ main EXCEPT !.pc = "Close" ] ]_vars

\* The process has shut down after an interrupt, with watchers registered:
\* every step has happened.
C27_Witness ==
  /\ main.pc = "exited"
  /\ main.code = 0
  /\ main.http = "closed"
  /\ main.ctx = "cancelled"
  /\ main.store = "closed"
  /\ manager.handlers # << >>

\* C29: the GC routine runs a pass for a tick of its hourly ticker as long
\* as its context is not cancelled: whatever RunGC returns, nil,
\* ErrNoRewrite or another error, the routine goes back to its select, so
\* that it has returned only if the context is cancelled; a waiting tick
\* leads to a pass unless the context is cancelled, and once the context is
\* cancelled the routine returns (or the process ends first).
C29_GCRoutineRunsUntilCancelled ==
  /\ [](main.gc = "returned" => main.ctx = "cancelled")
  /\ [](main.passes <= main.fired)
  /\ [][ ( main.gc = "RunGC" /\ main'.gc # main.gc )
         => ( main'.gc = "select" /\ main'.passes = main.passes + 1 ) ]_vars
  /\ ( main.ticker = 1 /\ main.gc = "select" )
       ~> ( main.gc = "RunGC" \/ main.ctx = "cancelled" )
  /\ ( main.ctx = "cancelled" ) ~> ( main.gc = "returned" \/ main.pc = "exited" )

\* The routine ran two passes, the second of which failed, went on, and
\* returned after the context was cancelled, the process still running.
C29_Witness ==
  /\ main.passes = 2
  /\ main.gcErr = "error"
  /\ main.ctx = "cancelled"
  /\ main.gc = "returned"
  /\ main.pc # "exited"

\* C31: with BADGER_PATH and SERVER_PORT unset, a field that is absent, the
\* file missing or the field omitted from it (its zero value after
\* yaml.Unmarshal), has the documented default: serverPort 8080,
\* retentionDays 14, maxQueryLimit 1000, storagePath /data/watch-events,
\* and, without a file, discoverCRDs true.
C31_DocumentedDefaults ==
  ( /\ call.op = "loadConfig"
    /\ call.args[3] = ""
    /\ call.args[4].str = "unset" )
  => LET exists == call.args[1]
         file == call.args[2]
     IN  /\ ( ~exists \/ file.serverPort = 0 ) => call.out.serverPort = 8080
         /\ ( ~exists \/ file.retentionDays = 0 ) => call.out.retentionDays = 14
         /\ ( ~exists \/ file.maxQueryLimit = 0 ) => call.out.maxQueryLimit = 1000
         /\ ( ~exists \/ file.storagePath = "" ) => call.out.storagePath = "/data/watch-events"
         /\ ~exists => call.out.discoverCRDs

\* C32: every record in the store, read back from an entry of any index,
\* has user system:k8s-watcher, responseStatus 200, stage ResponseComplete
\* and no sourceIPs, whatever object and notification produced it.
C32_ConstantFields ==
  \A e \in db :
    LET event == Unmarshal(e.value)
    IN  /\ event.user = "system:k8s-watcher"
        /\ event.responseStatus = 200
        /\ event.stage = "ResponseComplete"
        /\ event.sourceIPs = << >>

\* The store holds the records of an Add, an Update and a Delete
\* notification about objects of one kind.
C32_Witness ==
  /\ { hist[h].eventType : h \in 1..Len(hist) } = { "ADDED", "MODIFIED", "DELETED" }
  /\ \A h \in 1..Len(hist) : \E e \in db : e.value = Marshal(hist[h].event)
  /\ Cardinality({ hist[h].obj.kind : h \in 1..Len(hist) }) = 1
  /\ db # {}

\* The namespace, resourceType and resourceName filters of QueryEvents
\* accept a triple: an empty filter accepts anything.
Accepts(filter, triple) ==
  \A n \in 1..3 : filter[n] = << >> \/ filter[n] = triple[n]

\* The filters made of a triple, each part given or left empty.
FiltersOf(triple) ==
  { [ n \in 1..3 |-> IF n \in given THEN triple[n] ELSE << >> ] : given \in SUBSET (1..3) }

\* C33: for every entry of the time index, the namespace, resourceType and
\* resourceName segments of the key, split on "/", are those of the record
\* the entry holds, so that a filter on the key segments accepts exactly
\* the entries a filter on the records' own fields accepts.
C33_KeySegmentsAreRecordFields ==
  \A r \in Rows(db) :
    r.index = Events
    => /\ r.object = TripleOf(Unmarshal(r.value))
       /\ \A q \in Rows(db) : \A filter \in FiltersOf(q.object) :
            Accepts(filter, r.object) <=> Accepts(filter, TripleOf(Unmarshal(r.value)))

\* The time index holds the records of a Pod and of Event objects of two
\* namespaces.
C33_Witness ==
  /\ Cardinality({ r \in Rows(db) : r.index = Events }) = 3
  /\ Cardinality({ r.object[1] : r \in { q \in Rows(db) : q.index = Events } }) = 2
  /\ Cardinality({ r.object[2] : r \in { q \in Rows(db) : q.index = Events } }) = 2

\* C34: after Start, the initial discovery and any Add notifications of the
\* CRD informer, those for definitions that existed at startup included, no
\* resource type (group, version, kind) has more than one event handler
\* registered with its informer.
C34_OneHandlerPerType ==
  \A r \in Range(manager.handlers) :
    Cardinality({ n \in 1..Len(manager.handlers) : manager.handlers[n] = r }) = 1

\* C35: no call of the store runs once main has closed it: when the store
\* is closed the GC routine is not inside RunGC, no informer goroutine is
\* inside a callback's StoreEvent, and no request handler stands between
\* its reads of the store.
C35_NoStoreCallAfterClose ==
  main.store = "closed"
  => /\ main.gc # "RunGC"
     /\ \A k \in Kinds : worker[k].pc = "idle"
     /\ reader.pc # "related"

\* A step of the startup has failed: NewStore, Manager.Start or the
\* initial sync of the cache.
StartupFailed ==
  \/ main.store = "unopened" /\ main.pc # "NewStore"
  \/ manager.err = "error"
  \/ main.synced = "failed"

\* C36: the HTTP server accepts requests only after the store is open,
\* Manager.Start has returned nil with a handler registered for every
\* configured descriptor, and the informer cache has synced; when one of
\* the three fails the process exits with a non-zero code, the listener is
\* never opened and no request is served.
C36_ServeOnlyAfterStartup ==
  /\ main.http = "listening"
     => /\ main.store = "open"
        /\ manager.err = "nil"
        /\ Range(manager.args.resources) \subseteq Range(manager.handlers)
        /\ main.synced = "yes"
  /\ reader # NoRequest => ~StartupFailed
  /\ StartupFailed
     => /\ main.pc \in { "os.Exit", "exited" }
        /\ main.pc = "exited" => main.code # 0
        /\ main.http = "closed"

\* The startup went through and a request was served.
C36_Witness ==
  /\ main.http = "listening"
  /\ main.synced = "yes"
  /\ Len(manager.handlers) >= 2
  /\ reader.pc = "done"
  /\ reader.status = 200

\* The cache did not sync: the process exited with code 1, the store open
\* and the watchers registered.
C36_WitnessSyncFailed ==
  /\ main.synced = "failed"
  /\ manager.err = "nil"
  /\ main.pc = "exited"
  /\ main.code = 1

\* The delete records of an object in the store.
DeleteRecords(obj) ==
  { e \in db : /\ HasSuffix(e.key, << "/" >> \o obj.uid)
               /\ Unmarshal(e.value).verb = "delete"
               /\ Unmarshal(e.value).resourceName = obj.name }

\* C37: a callback whose payload is not an unstructured object, as the
\* Delete callback given a final-state-unknown tombstone, writes nothing:
\* the step leaves the store and the sequence of transformed notifications
\* as they were, so that every delete record the store holds of the object
\* in the tombstone is the record of a Delete callback that was given the
\* object itself.
C37_TombstoneWritesNothing ==
  /\ [][ ( call'.op = "handleDelete" /\ call' # call )
         => ( db' = db /\ hist' = hist ) ]_vars
  /\ []( call.op = "handleDelete"
         => \A e \in DeleteRecords(call.args[1].tombstone) :
              \E h \in 1..Len(hist) : /\ hist[h].eventType = "DELETED"
                                      /\ e.value = Marshal(hist[h].event) )

\* An object whose creation is recorded was deleted behind a tombstone: it
\* is gone from the cluster and the store holds its create record and no
\* delete record.
C37_Witness ==
  /\ call.op = "handleDelete"
  /\ call.args[1].tombstone \notin cluster
  /\ \E h \in 1..Len(hist) :
       /\ hist[h].obj = call.args[1].tombstone
       /\ hist[h].eventType = "ADDED"
       /\ \E e \in db : e.value = Marshal(hist[h].event)
  /\ \A h \in 1..Len(hist) :
       hist[h].obj = call.args[1].tombstone => hist[h].eventType # "DELETED"

\* C38: a limit parameter that is an integer less than or equal to zero is
\* not rejected: the query is answered as the same query without a limit
\* is, with maxQueryLimit as the effective limit, and the limit the scan of
\* the store applies is the limit X-Has-More is computed with
\* (maxQueryLimit being configured positive).
C38_NonPositiveLimit ==
  ( /\ reader.op = "query"
    /\ reader.pc = "done"
    /\ reader.args.limit.str = "int"
    /\ reader.args.limit.n <= 0 )
  => LET unlimited == RequestOptions([ reader.args EXCEPT !.limit = NoLimit ])
         events == QueryEvents(reader.view, unlimited)
     IN  /\ reader.status # 400
         /\ reader.limit = MaxQueryLimit
         /\ QueryLimit(RequestOptions(reader.args)) = reader.limit
         /\ reader.status = QueryStatus(events)
         /\ reader.status = 200
            => /\ reader.events = events
               /\ reader.total = Len(events)
               /\ reader.hasMore <=> ( Len(events) = MaxQueryLimit )

\* A query with limit -1 over three records returned maxQueryLimit of them
\* and says there is more.
C38_Witness ==
  /\ reader.op = "query"
  /\ reader.pc = "done"
  /\ reader.args.limit = LimitParam(-1)
  /\ reader.status = 200
  /\ reader.total = MaxQueryLimit
  /\ reader.hasMore
  /\ Cardinality(MatchingRows(reader.view, reader.args)) > MaxQueryLimit

\* C39: the health, query and history handlers, and with them QueryEvents,
\* GetObjectHistory and GetRelatedEvents, are read-only: no step of a
\* request, whatever its parameters, and whether it is answered 200, 400,
\* 404 or 500, adds, changes or removes an entry of the store.
C39_HandlersReadOnly ==
  [][ reader' # reader => db' = db ]_vars

\* Over a store that holds a record, a history request read both indexes
\* and was answered 200.
C39_Witness ==
  /\ db # {}
  /\ reader.op = "history"
  /\ reader.pc = "done"
  /\ reader.reads = 2
  /\ reader.status = 200

====
